---- MODULE Spec2Model ----
(***************************************************************************)
(* A model of the invoice extraction core of AI-Invoice:                   *)
(*   src/app.py                          InvoiceProcessor                  *)
(*   src/gemini_extractor.py             GeminiAIExtractor                 *)
(*   src/testing files/structured_data.py  the structured data model       *)
(*   src/config.py                       AIConfig                          *)
(*                                                                         *)
(* Representation.                                                         *)
(*   - A Python str is a sequence of one-character strings; a text is the  *)
(*     sequence of its lines (text.split("\n")).                           *)
(*   - An Optional value is <<>> (None) or <<v>>.                          *)
(*   - A Python float is an integer number of hundredths: 25.00 is 2500,   *)
(*     a quantity 1.5 is 150, a tax rate 0.10 is 10, a confidence 0.3 is   *)
(*     30.  The sample inputs keep every product exact in hundredths.      *)
(***************************************************************************)
EXTENDS Integers, Sequences, FiniteSets, TLC

\* An upload (Spec): doc is the recovered text, model_ready is is_available(),
\* fallback_enabled is config.ai.fallback_enabled, pc the upload's position;
\* adapter_ret is what the adapter's extract gave, extract_calls and regex_runs
\* count the calls of extract and the pattern-based runs, out_sd, out_tag and
\* out_raised are what _extract_with_ai_fallback returned or raised, ret is
\* what process_invoice gave upload_file and flash the message shown.
\* A scan (SpecLines): scan_text is the text given to extract_line_items,
\* scan_items what it returned.  A derivation (SpecTotals): t_sd is the model,
\* t_prev the model before the latest calculate_all_totals, t_calls the calls.
\* A direct call of one function (SpecCategorize and the specifications after
\* it): call_pc names the function and whether it has returned, call_args is
\* what it is given and call_ret what it gives back.
VARIABLES doc, model_ready, fallback_enabled, pc, adapter_ret, extract_calls,
          regex_runs, out_sd, out_tag, out_raised, ret, flash,
          scan_text, scan_pc, scan_items,
          t_sd, t_prev, t_calls,
          call_pc, call_args, call_ret

vars == <<doc, model_ready, fallback_enabled, pc, adapter_ret, extract_calls,
          regex_runs, out_sd, out_tag, out_raised, ret, flash,
          scan_text, scan_pc, scan_items,
          t_sd, t_prev, t_calls,
          call_pc, call_args, call_ret>>

(***************************************************************************)
(* Optional values and fixed-point numbers                                 *)
(***************************************************************************)
None == <<>>

Some(v) == <<v>>

\* Python truthiness of an Optional number: None and 0 are falsy.
OrZero(o) == IF o = None THEN 0 ELSE o[1]

\* Hundredths per unit: amounts are written with two decimals.
Scale == 100

\* The product of two floats held in hundredths.
Mul(a, b) == (a * b) \div Scale

Min(a, b) == IF a <= b THEN a ELSE b

RECURSIVE SumSeq(_)
SumSeq(s) == IF s = <<>> THEN 0 ELSE Head(s) + SumSeq(Tail(s))

\* The element of a one-element set.  Only({F(x) : x \in {e}}) is F(e) with
\* e computed once, where a LET would compute it at each use.
Only(S) == CHOOSE x \in S : TRUE

\* All sequences over S of length at most n.
SeqsUpTo(S, n) == UNION {[1..k -> S] : k \in 0..n}

(***************************************************************************)
(* Characters                                                              *)
(***************************************************************************)
DigitSeq == <<"0", "1", "2", "3", "4", "5", "6", "7", "8", "9">>

UpperSeq == <<"A", "B", "C", "D", "E", "F", "G", "H", "I", "J", "K", "L", "M",
              "N", "O", "P", "Q", "R", "S", "T", "U", "V", "W", "X", "Y", "Z">>

LowerSeq == <<"a", "b", "c", "d", "e", "f", "g", "h", "i", "j", "k", "l", "m",
              "n", "o", "p", "q", "r", "s", "t", "u", "v", "w", "x", "y", "z">>

Digit == {DigitSeq[i] : i \in DOMAIN DigitSeq}

Upper == {UpperSeq[i] : i \in DOMAIN UpperSeq}

Lower == {LowerSeq[i] : i \in DOMAIN LowerSeq}

\* \s
Space == {" ", "\t", "\n"}

Punct == {".", ",", ":", "-", "#", "/", "&", "=", "_", "$", "@", "(", ")", "+", "%"}

CurrencyGlyph == {"₹", "€", "£"}

\* . (every character but the line break)
AnyCh == Digit \cup Upper \cup Lower \cup {" ", "\t"} \cup Punct \cup CurrencyGlyph

\* str.lower() and str.upper() on one character
ToLower(c) == IF c \in Upper THEN LowerSeq[CHOOSE i \in DOMAIN UpperSeq : UpperSeq[i] = c] ELSE c

ToUpper(c) == IF c \in Lower THEN UpperSeq[CHOOSE i \in DOMAIN LowerSeq : LowerSeq[i] = c] ELSE c

DigitVal(c) == (CHOOSE i \in DOMAIN DigitSeq : DigitSeq[i] = c) - 1

(***************************************************************************)
(* Regular expressions, as re.search evaluates them: a pattern is a        *)
(* sequence of nodes, Ends lists the offsets a node can end at in the      *)
(* order the backtracking matcher tries them, and Path is the first        *)
(* complete match in that order.  Literals are compared case-insensitively *)
(* (every pattern of the program is used with re.IGNORECASE).              *)
(***************************************************************************)
\* An unbounded repetition: longer than any input of the model.
Unbounded == 1000

Cls(set, lo, hi, greedy) == [t |-> "cls", set |-> set, lo |-> lo, hi |-> hi, greedy |-> greedy]

Lit(alts) == [t |-> "lit", alts |-> alts]

Opt(n) == [t |-> "opt", n |-> n]

Cat(parts) == [t |-> "cat", parts |-> parts]

\* ^ and $ without re.MULTILINE
Bol == [t |-> "bol"]

Eol == [t |-> "eol"]

\* ^ under re.MULTILINE
MBol == [t |-> "mbol"]

\* (?:a|b|...), the alternatives in their order
Alt(alts) == [t |-> "alt", alts |-> alts]

RECURSIVE Run(_, _, _, _)
\* The length of the longest run of characters of `set` at offset i, at most hi.
Run(s, i, set, hi) ==
    IF hi = 0 \/ i >= Len(s) \/ s[i + 1] \notin set THEN 0
    ELSE 1 + Run(s, i + 1, set, hi - 1)

LitAt(s, i, w) ==
    /\ i + Len(w) <= Len(s)
    /\ \A k \in 1..Len(w) : ToLower(s[i + k]) = ToLower(w[k])

RECURSIVE LitEnds(_, _, _, _)
LitEnds(alts, k, s, i) ==
    IF k > Len(alts) THEN <<>>
    ELSE (IF LitAt(s, i, alts[k]) THEN <<i + Len(alts[k])>> ELSE <<>>)
         \o LitEnds(alts, k + 1, s, i)

RECURSIVE Ends(_, _, _)
RECURSIVE EndsCat(_, _, _, _)
RECURSIVE EndsEach(_, _, _, _, _)
RECURSIVE EndsAlt(_, _, _, _)
Ends(n, s, i) ==
    CASE n.t = "cls" ->
           LET L == Run(s, i, n.set, n.hi) IN
           IF L < n.lo THEN <<>>
           ELSE IF n.greedy THEN [k \in 1..(L - n.lo + 1) |-> i + L - (k - 1)]
           ELSE [k \in 1..(L - n.lo + 1) |-> i + n.lo + (k - 1)]
      [] n.t = "lit" -> LitEnds(n.alts, 1, s, i)
      [] n.t = "opt" -> Ends(n.n, s, i) \o <<i>>
      [] n.t = "cat" -> EndsCat(n.parts, 1, s, i)
      [] n.t = "bol" -> IF i = 0 THEN <<i>> ELSE <<>>
      [] n.t = "eol" -> IF i = Len(s) \/ (i = Len(s) - 1 /\ s[Len(s)] = "\n") THEN <<i>>
                        ELSE <<>>
      [] n.t = "mbol" -> IF i = 0 \/ s[i] = "\n" THEN <<i>> ELSE <<>>
      [] n.t = "alt" -> EndsAlt(n.alts, 1, s, i)

EndsAlt(alts, k, s, i) ==
    IF k > Len(alts) THEN <<>> ELSE Ends(alts[k], s, i) \o EndsAlt(alts, k + 1, s, i)

EndsCat(parts, k, s, i) ==
    IF k > Len(parts) THEN <<i>>
    ELSE EndsEach(parts, k, s, Ends(parts[k], s, i), 1)

EndsEach(parts, k, s, es, j) ==
    IF j > Len(es) THEN <<>>
    ELSE EndsCat(parts, k + 1, s, es[j]) \o EndsEach(parts, k, s, es, j + 1)

RECURSIVE Path(_, _, _, _)
RECURSIVE TryEnds(_, _, _, _, _, _)
\* The boundaries <<i, e_k, ..., e_n>> of the first match of parts[k..] at offset
\* i, or <<>> when there is none.
Path(parts, k, s, i) ==
    IF k > Len(parts) THEN <<i>>
    ELSE TryEnds(parts, k, s, i, Ends(parts[k], s, i), 1)

TryEnds(parts, k, s, i, es, j) ==
    IF j > Len(es) THEN <<>>
    ELSE LET r == Path(parts, k + 1, s, es[j]) IN
         IF r # <<>> THEN <<i>> \o r ELSE TryEnds(parts, k, s, i, es, j + 1)

\* re.search from offset i on: the match at the leftmost start that has one;
\* <<>> when no start has one.
SearchFrom(parts, s, i) ==
    Only({ IF hits = {} THEN <<>>
           ELSE Path(parts, 1, s, CHOOSE j \in hits : \A h \in hits : j <= h) :
             hits \in { {j \in i..Len(s) : Path(parts, 1, s, j) # <<>>} } })

Search(parts, s) == SearchFrom(parts, s, 0)

\* match.group for the node parts[k] of a match m
Group(m, s, k) == SubSeq(s, m[k] + 1, m[k + 1])

(***************************************************************************)
(* String helpers                                                          *)
(***************************************************************************)
RECURSIVE LStrip(_)
LStrip(s) == IF s # <<>> /\ Head(s) \in Space THEN LStrip(Tail(s)) ELSE s

RECURSIVE RStrip(_)
RStrip(s) == IF s # <<>> /\ s[Len(s)] \in Space THEN RStrip(SubSeq(s, 1, Len(s) - 1)) ELSE s

\* str.strip()
Strip(s) == RStrip(LStrip(s))

RECURSIVE CollapseWS(_)
\* re.sub(r'\s+', ' ', s)
CollapseWS(s) ==
    IF s = <<>> THEN <<>>
    ELSE IF Head(s) \in Space THEN <<" ">> \o CollapseWS(LStrip(s))
    ELSE <<Head(s)>> \o CollapseWS(Tail(s))

\* str.lower()
Lowered(s) == [i \in DOMAIN s |-> ToLower(s[i])]

\* w in s.lower(), for a lower-case w
Contains(s, w) == \E i \in 0..(Len(s) - Len(w)) : LitAt(s, i, w)

\* re.sub(r'[^...]', '', s): the characters of s that are in `set`
Keep(s, set) == SelectSeq(s, LAMBDA c : c \in set)

RECURSIVE JoinLines(_)
\* "\n".join(lines): the text the line sequence stands for
JoinLines(lines) ==
    IF lines = <<>> THEN <<>>
    ELSE IF Len(lines) = 1 THEN lines[1]
    ELSE lines[1] \o <<"\n">> \o JoinLines(Tail(lines))

RECURSIVE DigitsVal(_)
DigitsVal(s) ==
    IF s = <<>> THEN 0
    ELSE DigitsVal(SubSeq(s, 1, Len(s) - 1)) * 10 + DigitVal(s[Len(s)])

\* The first two decimals of a fraction, in hundredths.
FracVal(f) ==
    IF f = <<>> THEN 0
    ELSE IF Len(f) = 1 THEN DigitVal(f[1]) * 10
    ELSE DigitVal(f[1]) * 10 + DigitVal(f[2])

\* float(s), in hundredths: Some(value) for [-]digits[.digits] with at least one
\* digit, None where float() raises ValueError.
ParseFloat(s) ==
    LET neg  == s # <<>> /\ s[1] = "-"
        u    == IF neg THEN Tail(s) ELSE s
        dots == {i \in DOMAIN u : u[i] = "."}
        dot  == IF dots = {} THEN Len(u) + 1 ELSE CHOOSE i \in dots : TRUE
        ip   == SubSeq(u, 1, dot - 1)
        fp   == SubSeq(u, dot + 1, Len(u))
        v    == DigitsVal(ip) * Scale + FracVal(fp)
    IN IF \/ Cardinality(dots) > 1
          \/ \E i \in DOMAIN u : u[i] \notin Digit \cup {"."}
          \/ Len(ip) + Len(fp) = 0
       THEN None
       ELSE Some(IF neg THEN 0 - v ELSE v)

RECURSIVE Split(_, _)
\* s.split(sep) for a separator of one character out of seps
Split(s, seps) ==
    IF \A i \in DOMAIN s : s[i] \notin seps THEN <<s>>
    ELSE Only({ <<SubSeq(s, 1, i - 1)>> \o Split(SubSeq(s, i + 1, Len(s)), seps) :
                  i \in {CHOOSE j \in DOMAIN s : /\ s[j] \in seps
                                                 /\ \A h \in 1..(j - 1) : s[h] \notin seps} })

(***************************************************************************)
(* InvoiceProcessor: the line item parser (src/app.py 210-447)             *)
(***************************************************************************)
\* \s+
WS == Cls(Space, 1, Unbounded, TRUE)

\* \d+(?:\.\d+)?
NUM == Cat(<<Cls(Digit, 1, Unbounded, TRUE),
             Opt(Cat(<<Lit(<< <<".">> >>), Cls(Digit, 1, Unbounded, TRUE)>>))>>)

\* [0-9,]+\.?\d{0,2}
AMT == Cat(<<Cls(Digit \cup {","}, 1, Unbounded, TRUE), Opt(Lit(<< <<".">> >>)),
             Cls(Digit, 0, 2, TRUE)>>)

\* (?:₹|€|£)?
CUR == Opt(Lit(<< <<"₹">>, <<"€">>, <<"£">> >>))

\* .+?
DESC == Cls(AnyCh, 1, Unbounded, FALSE)

\* (?:GST|VAT|TAX|CGST|SGST|IGST|UTGST)
TaxKeywords == << <<"G", "S", "T">>, <<"V", "A", "T">>, <<"T", "A", "X">>,
                  <<"C", "G", "S", "T">>, <<"S", "G", "S", "T">>,
                  <<"I", "G", "S", "T">>, <<"U", "T", "G", "S", "T">> >>

\* (?:charge|fee|discount|shipping|handling|delivery)
ServiceKeywords == << <<"c", "h", "a", "r", "g", "e">>, <<"f", "e", "e">>,
                      <<"d", "i", "s", "c", "o", "u", "n", "t">>,
                      <<"s", "h", "i", "p", "p", "i", "n", "g">>,
                      <<"h", "a", "n", "d", "l", "i", "n", "g">>,
                      <<"d", "e", "l", "i", "v", "e", "r", "y">> >>

\* .+?(?:keywords).*?
Around(keywords) == Cat(<<Cls(AnyCh, 1, Unbounded, FALSE), Lit(keywords),
                          Cls(AnyCh, 0, Unbounded, FALSE)>>)

\* The six line shapes, in the order extract_line_items tries them.
LinePatterns ==
    << <<Bol, NUM, WS, DESC, WS, CUR, AMT, Eol>>,
       <<Bol, DESC, WS, NUM, WS, CUR, AMT, WS, CUR, AMT, Eol>>,
       <<Bol, Cls(Upper \cup Lower \cup Digit \cup {"-"}, 1, Unbounded, TRUE), WS, DESC, WS,
         NUM, WS, CUR, AMT, Eol>>,
       <<Bol, Around(TaxKeywords), WS, CUR, AMT, Eol>>,
       <<Bol, Around(ServiceKeywords), WS, CUR, AMT, Eol>>,
       <<Bol, DESC, WS, CUR, AMT, Eol>> >>

\* .*$
Rest == Cls(AnyCh, 0, Unbounded, TRUE)

SkipPatterns ==
    << <<Bol, Lit(<< <<"q", "t", "y">>, <<"q", "u", "a", "n", "t", "i", "t", "y">>,
                     <<"d", "e", "s", "c", "r", "i", "p", "t", "i", "o", "n">>,
                     <<"a", "m", "o", "u", "n", "t">>, <<"t", "o", "t", "a", "l">>,
                     <<"s", "u", "b", "t", "o", "t", "a", "l">>, <<"i", "t", "e", "m">>,
                     <<"p", "r", "o", "d", "u", "c", "t">> >>), Rest, Eol>>,
       <<Bol, Lit(<< <<"i", "n", "v", "o", "i", "c", "e">>, <<"b", "i", "l", "l">>,
                     <<"r", "e", "c", "e", "i", "p", "t">>, <<"o", "r", "d", "e", "r">> >>),
         Rest, Eol>>,
       <<Bol, Lit(<< <<"p", "a", "g", "e">>, <<"c", "o", "n", "t", "i", "n", "u", "e", "d">>,
                     <<"t", "e", "r", "m", "s">>,
                     <<"c", "o", "n", "d", "i", "t", "i", "o", "n", "s">> >>), Rest, Eol>>,
       <<Bol, Lit(<< <<"t", "h", "a", "n", "k", " ", "y", "o", "u">>,
                     <<"t", "h", "a", "n", "k", "s">>,
                     <<"s", "i", "g", "n", "a", "t", "u", "r", "e">>,
                     <<"a", "u", "t", "h", "o", "r", "i", "z", "e", "d">> >>), Rest, Eol>>,
       <<Bol, Cls(Space, 0, Unbounded, TRUE), Cls({"-", "=", "_"}, 1, Unbounded, TRUE),
         Cls(Space, 0, Unbounded, TRUE), Eol>>,
       <<Bol, Cls(Space, 0, Unbounded, TRUE), Cls(Digit, 1, Unbounded, TRUE),
         Cls(Space, 0, Unbounded, TRUE), Eol>> >>

\* ^(item|product|service):\s*
LabelPrefix == <<Bol, Lit(<< <<"i", "t", "e", "m">>, <<"p", "r", "o", "d", "u", "c", "t">>,
                             <<"s", "e", "r", "v", "i", "c", "e">> >>),
                 Lit(<< <<":">> >>), Cls(Space, 0, Unbounded, TRUE)>>

_clean_description(description) ==
    IF description = <<>> THEN <<>>
    ELSE LET d1 == CollapseWS(Strip(description))
             m  == Search(LabelPrefix, d1)
             d2 == IF m = <<>> THEN d1 ELSE SubSeq(d1, m[Len(m)] + 1, Len(d1))
         IN IF d2 = <<>> THEN <<>> ELSE <<ToUpper(d2[1])>> \o Tail(d2)

_clean_amount(amount_str) ==
    IF amount_str = <<>> THEN 0
    ELSE LET v == ParseFloat(Keep(amount_str, Digit \cup {".", "-"})) IN
         IF v = None THEN 0 ELSE v[1]

\* The dict _parse_line_item builds; product_code is None where the key is absent.
Draft(item_type, quantity, description, unit_price, amount, product_code, original_line) ==
    [item_type |-> item_type, quantity |-> quantity, description |-> description,
     unit_price |-> unit_price, amount |-> amount, product_code |-> product_code,
     original_line |-> original_line]

\* float(match.group(k)) of a \d+(?:\.\d+)? group; it cannot raise ValueError.
Quantity(g) == ParseFloat(g)[1]

_parse_line_item(m, pattern_type, original_line) ==
    LET g(k) == Group(m, original_line, k) IN
    CASE pattern_type = 1 ->
           Some(Draft("product", Quantity(g(2)), _clean_description(g(4)), None,
                      _clean_amount(g(7)), None, original_line))
      [] pattern_type = 2 ->
           Some(Draft("product", Quantity(g(4)), _clean_description(g(2)),
                      Some(_clean_amount(g(7))), _clean_amount(g(10)), None, original_line))
      [] pattern_type = 3 ->
           Some(Draft("product", Quantity(g(6)), _clean_description(g(4)), None,
                      _clean_amount(g(9)), Some(g(2)), original_line))
      [] pattern_type = 4 ->
           Some(Draft("tax", Scale, _clean_description(g(2)), None,
                      _clean_amount(g(5)), None, original_line))
      [] pattern_type = 5 ->
           Some(Draft("service", Scale, _clean_description(g(2)), None,
                      _clean_amount(g(5)), None, original_line))
      [] pattern_type = 6 ->
           Some(Draft("other", Scale, _clean_description(g(2)), None,
                      _clean_amount(g(5)), None, original_line))
      [] OTHER -> None

\* Limits of _validate_line_item, in units.
MaxAmount == 999999

MaxQuantity == 10000

MinDescription == 3

\* A validation that checks the amount only.
_validate_line_item_amount_only(item) == ~(item.amount < 0 \/ item.amount > 999999 * 100)

\* Lines shorter than this are not parsed.
MinLineLength == 5

_validate_line_item(item) ==
    /\ item.description # <<>>
    /\ ~(item.amount < 0 \/ item.amount > MaxAmount * Scale)
    /\ ~(item.quantity < 0 \/ item.quantity > MaxQuantity * Scale)
    /\ ~(Len(item.description) < MinDescription)

Skipped(line) == \E k \in DOMAIN SkipPatterns : Search(SkipPatterns[k], line) # <<>>

RECURSIVE FirstMatch_until_valid(_, _)
\* A loop that goes on to the next pattern when a draft is rejected.
FirstMatch_until_valid(line, i) ==
    IF i > Len(LinePatterns) THEN <<>>
    ELSE LET m == Search(LinePatterns[i], line) IN
         IF m = <<>> THEN FirstMatch_until_valid(line, i + 1)
         ELSE LET item == _parse_line_item(m, i, line) IN
              IF item # None /\ _validate_line_item(item[1]) THEN <<item[1]>>
              ELSE FirstMatch_until_valid(line, i + 1)

RECURSIVE FirstMatch(_, _)
\* for i, pattern in enumerate(patterns): ... break
FirstMatch(line, i) ==
    IF i > Len(LinePatterns) THEN <<>>
    ELSE LET m == Search(LinePatterns[i], line) IN
         IF m = <<>> THEN FirstMatch(line, i + 1)
         ELSE LET item == _parse_line_item(m, i, line) IN
              IF item # None /\ _validate_line_item(item[1]) THEN <<item[1]>> ELSE <<>>

\* One turn of the loop over the lines: the items it appends (none or one).
ParseLine(raw) ==
    LET line == Strip(raw) IN
    IF line = <<>> \/ Len(line) < MinLineLength THEN <<>>
    ELSE IF Skipped(line) THEN <<>>
    ELSE FirstMatch(line, 1)

TaxWords == << <<"g", "s", "t">>, <<"v", "a", "t">>, <<"t", "a", "x">>,
               <<"c", "g", "s", "t">>, <<"s", "g", "s", "t">>, <<"i", "g", "s", "t">>,
               <<"u", "t", "g", "s", "t">> >>

ServiceWords == << <<"s", "h", "i", "p", "p", "i", "n", "g">>,
                   <<"d", "e", "l", "i", "v", "e", "r", "y">>,
                   <<"h", "a", "n", "d", "l", "i", "n", "g">>, <<"f", "e", "e">>,
                   <<"c", "h", "a", "r", "g", "e">> >>

DiscountWord == <<"d", "i", "s", "c", "o", "u", "n", "t">>

HasWord(s, words) == \E k \in DOMAIN words : Contains(s, words[k])

\* The bucket _categorize_line_items puts an item in.
Bucket(item) ==
    IF item.item_type = "tax" \/ HasWord(item.description, TaxWords) THEN "taxes"
    ELSE IF Contains(item.description, DiscountWord) \/ item.amount < 0 THEN "discounts"
    ELSE IF item.item_type = "service" \/ HasWord(item.description, ServiceWords) THEN "services"
    ELSE IF item.item_type = "product" THEN "products"
    ELSE "other"

BucketOrder == <<"products", "services", "taxes", "discounts", "other">>

\* categorized, before the loop: empty buckets and a zeroed summary.
EmptyCategorized(items) ==
    [products |-> <<>>, services |-> <<>>, taxes |-> <<>>, discounts |-> <<>>,
     other |-> <<>>,
     summary |-> [total_items |-> Len(items), subtotal |-> 0, tax_total |-> 0,
                  grand_total |-> 0]]

\* A loop body that counts a discount in the subtotal as well.
Place_discount_counted(c, item) ==
    LET b == Bucket(item) IN
    IF b = "taxes"
    THEN [c EXCEPT !.taxes = Append(@, item), !.summary.tax_total = @ + item.amount]
    ELSE [c EXCEPT ![b] = Append(@, item), !.summary.subtotal = @ + item.amount]

\* The loop body: the item is appended to its bucket; a tax adds to tax_total,
\* a service, product or other item to subtotal, a discount to neither.
Place(c, item) ==
    LET b == Bucket(item) IN
    IF b = "taxes"
    THEN [c EXCEPT !.taxes = Append(@, item), !.summary.tax_total = @ + item.amount]
    ELSE IF b = "discounts"
    THEN [c EXCEPT !.discounts = Append(@, item)]
    ELSE [c EXCEPT ![b] = Append(@, item), !.summary.subtotal = @ + item.amount]

RECURSIVE PlaceAll(_, _)
PlaceAll(c, items) ==
    IF items = <<>> THEN c ELSE PlaceAll(Place(c, Head(items)), Tail(items))

\* categorized, after the loop and the grand total.
Categorized(items) ==
    LET c == PlaceAll(EmptyCategorized(items), items) IN
    [c EXCEPT !.summary.grand_total = c.summary.subtotal + c.summary.tax_total]

DigitChars == <<"0", "1", "2", "3", "4", "5", "6", "7", "8", "9">>

RECURSIVE NatStr(_)
\* The decimal digits of a natural number.
NatStr(n) == IF n < 10 THEN <<DigitChars[n + 1]>> ELSE NatStr(n \div 10) \o <<DigitChars[(n % 10) + 1]>>

\* f"{x:.2f}" and f"{x:.0f}" of a number held in hundredths (the latter is used
\* for whole numbers only).
Fixed2(x) ==
    LET a == IF x < 0 THEN 0 - x ELSE x IN
    (IF x < 0 THEN <<"-">> ELSE <<>>) \o NatStr(a \div Scale) \o <<".">>
    \o <<DigitChars[((a % Scale) \div 10) + 1], DigitChars[(a % 10) + 1]>>

Fixed0(x) ==
    LET a == IF x < 0 THEN 0 - x ELSE x IN
    (IF x < 0 THEN <<"-">> ELSE <<>>) \o NatStr(a \div Scale)

FormattedQuantity(quantity) ==
    IF quantity % Scale = 0 THEN Fixed0(quantity) ELSE Fixed2(quantity)

\* The two strings added to an item for the template.
Formatted(item) ==
    [item_type |-> item.item_type, quantity |-> item.quantity,
     description |-> item.description, unit_price |-> item.unit_price,
     amount |-> item.amount, product_code |-> item.product_code,
     original_line |-> item.original_line,
     formatted_amount |-> <<"₹">> \o Fixed2(item.amount),
     formatted_quantity |-> FormattedQuantity(item.quantity)]

\* A flat list with the tax bucket ahead of the services.
Flat_taxes_first(c) == c.products \o c.taxes \o c.services \o c.discounts \o c.other

\* all_items: the buckets, concatenated.
Flat(c) ==
    c[BucketOrder[1]] \o c[BucketOrder[2]] \o c[BucketOrder[3]] \o c[BucketOrder[4]]
    \o c[BucketOrder[5]]

\* The flat list _categorize_line_items returns, each item with its two strings.
_categorize_line_items(items) ==
    LET all_items == Flat(Categorized(items)) IN
    [i \in DOMAIN all_items |-> Formatted(all_items[i])]

RECURSIVE ParseLines(_)
\* The loop over the lines: each line's item, if any, is appended in turn.
ParseLines(lines) ==
    IF lines = <<>> THEN <<>> ELSE ParseLine(Head(lines)) \o ParseLines(Tail(lines))

extract_line_items(text) == _categorize_line_items(ParseLines(text))

(***************************************************************************)
(* The structured data model (src/testing files/structured_data.py).       *)
(* Of a StructuredInvoiceData the model keeps extraction_metadata,         *)
(* invoice_metadata, vendor_details.name, line_items and summary.          *)
(***************************************************************************)
LineItem(description, quantity, unit_price, subtotal, tax_rate, tax_amount, total, category) ==
    [description |-> description, quantity |-> quantity, unit_price |-> unit_price,
     subtotal |-> subtotal, tax_rate |-> tax_rate, tax_amount |-> tax_amount,
     total |-> total, category |-> category]

\* A derivation that adds the tax amount to the total only when it is positive.
LineItem_calculate_totals_positive(item) ==
    LET subtotal   == IF item.unit_price # None /\ item.quantity # None
                      THEN Some((item.quantity[1] * item.unit_price[1]) \div 100)
                      ELSE item.subtotal
        tax_amount == IF item.tax_rate # None /\ item.tax_rate[1] > 0 /\ subtotal # None
                      THEN Some((subtotal[1] * item.tax_rate[1]) \div 100)
                      ELSE item.tax_amount
        total      == IF subtotal # None /\ tax_amount # None /\ tax_amount[1] > 0
                      THEN Some(subtotal[1] + tax_amount[1])
                      ELSE IF subtotal # None THEN subtotal
                      ELSE item.total
    IN [item EXCEPT !.subtotal = subtotal, !.tax_amount = tax_amount, !.total = total]

\* LineItem.calculate_totals
LineItem_calculate_totals(item) ==
    LET subtotal   == IF item.unit_price # None /\ item.quantity # None
                      THEN Some(Mul(item.quantity[1], item.unit_price[1]))
                      ELSE item.subtotal
        tax_amount == IF item.tax_rate # None /\ item.tax_rate[1] > 0 /\ subtotal # None
                      THEN Some(Mul(subtotal[1], item.tax_rate[1]))
                      ELSE item.tax_amount
        total      == IF subtotal # None /\ tax_amount # None
                      THEN Some(subtotal[1] + tax_amount[1])
                      ELSE IF subtotal # None THEN subtotal
                      ELSE item.total
    IN [item EXCEPT !.subtotal = subtotal, !.tax_amount = tax_amount, !.total = total]

Summary(subtotal, total_tax, discounts, shipping, grand_total) ==
    [subtotal |-> subtotal, total_tax |-> total_tax, discounts |-> discounts,
     shipping |-> shipping, grand_total |-> grand_total]

\* sum(item.subtotal or 0 for item in line_items if item.category != 'tax')
NonTaxSubtotal(line_items) ==
    SumSeq([i \in DOMAIN line_items |->
              IF line_items[i].category # "tax" THEN OrZero(line_items[i].subtotal) ELSE 0])

\* sum(item.tax_amount or 0 for item in line_items)
TaxAmountSum(line_items) ==
    SumSeq([i \in DOMAIN line_items |-> OrZero(line_items[i].tax_amount)])

\* A summary that keeps the totals it was given.
Summary_calculate_totals_keep(summary, line_items) == summary

\* A summary that adds the line items' sums onto the subtotal it holds.
Summary_calculate_totals_accumulate(summary, line_items) ==
    LET subtotal  == OrZero(summary.subtotal) + NonTaxSubtotal(line_items)
        total_tax == TaxAmountSum(line_items)
    IN [summary EXCEPT
          !.subtotal = Some(subtotal),
          !.total_tax = Some(total_tax),
          !.grand_total = Some(subtotal + total_tax + OrZero(summary.shipping)
                               - OrZero(summary.discounts))]

\* Summary.calculate_totals
Summary_calculate_totals(summary, line_items) ==
    LET subtotal  == NonTaxSubtotal(line_items)
        total_tax == TaxAmountSum(line_items)
    IN [summary EXCEPT
          !.subtotal = Some(subtotal),
          !.total_tax = Some(total_tax),
          !.grand_total = Some(subtotal + total_tax + OrZero(summary.shipping)
                               - OrZero(summary.discounts))]

\* StructuredInvoiceData.calculate_all_totals
calculate_all_totals(d) ==
    LET items == [i \in DOMAIN d.line_items |-> LineItem_calculate_totals(d.line_items[i])]
    IN [d EXCEPT !.line_items = items,
                 !.summary = Summary_calculate_totals(d.summary, items)]

\* datetime.now().isoformat() at the construction of an ExtractionMetadata
ClockNow == <<"n", "o", "w">>

\* ExtractionMetadata(...): extracted_at and errors take their defaults.
ExtractionMetadata(method, model, confidence_score, fallback_used) ==
    [method |-> method, model |-> model, confidence_score |-> confidence_score,
     fallback_used |-> fallback_used, extracted_at |-> ClockNow, errors |-> <<>>]

\* ExtractionMetadata(): method "unknown", no model, no score
DefaultMetadata == ExtractionMetadata("unknown", None, None, FALSE)

\* Summary(): every figure 0.0
DefaultSummary == Summary(Some(0), Some(0), Some(0), Some(0), Some(0))

\* re.match(r'^\d{4}-\d{2}-\d{2}$', s)
MatchesDatePattern(s) ==
    Path(<<Cls(Digit, 4, 4, TRUE), Lit(<< <<"-">> >>), Cls(Digit, 2, 2, TRUE),
           Lit(<< <<"-">> >>), Cls(Digit, 2, 2, TRUE), Eol>>, 1, s, 0) # <<>>

\* re.match(r'^[a-zA-Z0-9._%+-]+@[a-zA-Z0-9.-]+\.[a-zA-Z]{2,}$', s)
MatchesEmailPattern(s) ==
    Path(<<Cls(Upper \cup Lower \cup Digit \cup {".", "_", "%", "+", "-"}, 1, Unbounded, TRUE),
           Lit(<< <<"@">> >>),
           Cls(Upper \cup Lower \cup Digit \cup {".", "-"}, 1, Unbounded, TRUE),
           Lit(<< <<".">> >>), Cls(Upper \cup Lower, 2, Unbounded, TRUE), Eol>>, 1, s, 0) # <<>>

\* A validation issue: the line item it is about (0 for the model itself) and
\* the message; "Line item k: " is put ahead of an item's message.
Issue(k, message) == [item |-> k, message |-> message]

\* InvoiceMetadata.validate_dates
validate_dates(im) ==
    (IF im.invoice_date # None /\ im.invoice_date[1] # <<>>
        /\ ~MatchesDatePattern(im.invoice_date[1])
     THEN <<Issue(0, "Invoice date must be in YYYY-MM-DD format")>> ELSE <<>>)
    \o (IF im.due_date # None /\ im.due_date[1] # <<>> /\ ~MatchesDatePattern(im.due_date[1])
        THEN <<Issue(0, "Due date must be in YYYY-MM-DD format")>> ELSE <<>>)

\* Contact.validate_email
validate_email(contact) ==
    IF contact.email = None \/ contact.email[1] = <<>> THEN TRUE
    ELSE MatchesEmailPattern(contact.email[1])

\* LineItem.validate for item k of the model; the tax rate is in hundredths.
LineItem_validate(item, k) ==
    (IF item.description = None \/ item.description[1] = <<>>
     THEN <<Issue(k, "Line item description is required")>> ELSE <<>>)
    \o (IF item.quantity # None /\ item.quantity[1] < 0
        THEN <<Issue(k, "Quantity cannot be negative")>> ELSE <<>>)
    \o (IF item.unit_price # None /\ item.unit_price[1] < 0
        THEN <<Issue(k, "Unit price cannot be negative")>> ELSE <<>>)
    \o (IF item.tax_rate # None /\ (item.tax_rate[1] < 0 \/ item.tax_rate[1] > Scale)
        THEN <<Issue(k, "Tax rate must be between 0 and 1")>> ELSE <<>>)

RECURSIVE LineItems_validate(_, _)
\* for i, item in enumerate(self.line_items): the issues of items k, k + 1, ...
LineItems_validate(line_items, k) ==
    IF k > Len(line_items) THEN <<>>
    ELSE LineItem_validate(line_items[k], k) \o LineItems_validate(line_items, k + 1)

\* StructuredInvoiceData.validate
validate(d) ==
    validate_dates(d.invoice_metadata)
    \o (IF ~validate_email(d.vendor_details.contact)
        THEN <<Issue(0, "Invalid vendor email format")>> ELSE <<>>)
    \o (IF ~validate_email(d.customer_details.contact)
        THEN <<Issue(0, "Invalid customer email format")>> ELSE <<>>)
    \o LineItems_validate(d.line_items, 1)

\* str(x) of a float x given in hundredths: "2500.0", "12.5", "12.34", "-20.0"
FloatStr(x) ==
    LET a == IF x < 0 THEN 0 - x ELSE x IN
    (IF x < 0 THEN <<"-">> ELSE <<>>) \o NatStr(a \div Scale) \o <<".">>
    \o (IF a % 10 = 0 THEN NatStr((a % Scale) \div 10)
        ELSE NatStr((a % Scale) \div 10) \o NatStr(a % 10))

\* A line item of get_legacy_format raises TypeError: f"{item.total:.2f}" of None,
\* int(item.quantity) of None.
LegacyItemRaises(item) == item.total = None \/ item.quantity = None

\* A get_legacy_format whose items carry the subtotal as their amount.
LegacyItem_subtotal(item) ==
    [description |-> item.description, quantity |-> item.quantity,
     unit_price |-> item.unit_price, amount |-> item.subtotal, item_type |-> item.category]

\* The map get_legacy_format makes of a line item whose quantity and total are
\* numbers, without its two display strings (formatted_amount,
\* formatted_quantity).
LegacyItem(item) ==
    [description |-> item.description, quantity |-> item.quantity,
     unit_price |-> item.unit_price, amount |-> item.total, item_type |-> item.category]

\* StructuredInvoiceData.get_legacy_format: None where it raises.  The figures
\* are floats, so str(grand_total) is FloatStr; "structured_data" (to_dict())
\* repeats the model and is left to d itself.
get_legacy_format(d) ==
    IF \E i \in DOMAIN d.line_items : LegacyItemRaises(d.line_items[i]) THEN None
    ELSE Some([invoice_number |-> d.invoice_metadata.invoice_number,
               date |-> d.invoice_metadata.invoice_date,
               vendor |-> d.vendor_details.name,
               total |-> IF OrZero(d.summary.grand_total) # 0
                         THEN Some(FloatStr(d.summary.grand_total[1])) ELSE None,
               line_items |-> [i \in DOMAIN d.line_items |-> LegacyItem(d.line_items[i])],
               processed_at |-> d.extraction_metadata.extracted_at,
               extraction_method |-> d.extraction_metadata.method])

(***************************************************************************)
(* GeminiAIExtractor (src/gemini_extractor.py)                             *)
(***************************************************************************)
\* Truthiness of an Optional str: None and "" are falsy.
StrTruthy(o) == o # None /\ o[1] # <<>>

\* max_score
MaxScore == 10

\* The scorer's view of a model: a sub-object that may be absent is None or
\* Some(record) (invoice_metadata, vendor_details and in it address and contact,
\* line_items and each item of it, summary).  Weights are in hundredths.
\* "x and x.field": the field of a sub-object that is there, None otherwise.
Field(o, f) == IF o = None THEN None ELSE o[1][f]

\* A weighting that awards the invoice number's point when the number is missing.
MetadataPoints_number_missing(im) ==
    (IF ~StrTruthy(Field(im, "invoice_number")) THEN 100 ELSE 0)
  + (IF StrTruthy(Field(im, "invoice_date")) THEN 100 ELSE 0)

\* Invoice metadata (2 points)
MetadataPoints(im) ==
    (IF StrTruthy(Field(im, "invoice_number")) THEN 100 ELSE 0)
  + (IF StrTruthy(Field(im, "invoice_date")) THEN 100 ELSE 0)

\* Vendor details (3 points)
VendorPoints(vd) ==
    (IF StrTruthy(Field(vd, "name")) THEN 150 ELSE 0)
  + (IF \/ StrTruthy(Field(Field(vd, "address"), "street"))
        \/ StrTruthy(Field(Field(vd, "address"), "city")) THEN 100 ELSE 0)
  + (IF \/ StrTruthy(Field(Field(vd, "contact"), "email"))
        \/ StrTruthy(Field(Field(vd, "contact"), "phone")) THEN 50 ELSE 0)

\* detailed_items
Detailed(items) ==
    Cardinality({i \in DOMAIN items :
                   /\ StrTruthy(Field(items[i], "description"))
                   /\ Field(items[i], "quantity") # None
                   /\ Field(items[i], "quantity")[1] > 0})

\* A bonus that is not capped.
ItemPoints_uncapped(line_items) ==
    IF line_items # None /\ Len(line_items[1]) > 0
    THEN 100 + Detailed(line_items[1]) * 50
    ELSE 0

\* Line items (3 points)
ItemPoints(line_items) ==
    IF line_items # None /\ Len(line_items[1]) > 0
    THEN 100 + (IF Detailed(line_items[1]) > 0 THEN Min(200, Detailed(line_items[1]) * 50)
                ELSE 0)
    ELSE 0

\* Summary totals (2 points)
SummaryPoints(sm) ==
    (IF Field(sm, "grand_total") # None /\ Field(sm, "grand_total")[1] > 0 THEN 100 ELSE 0)
  + (IF \/ (Field(sm, "subtotal") # None /\ Field(sm, "subtotal")[1] > 0)
        \/ (Field(sm, "total_tax") # None /\ Field(sm, "total_tax")[1] > 0)
     THEN 100 ELSE 0)

\* GeminiAIExtractor._calculate_confidence_score.  The except branch (0.5) is
\* not reached: on values of the declared types no test of the try block raises.
_calculate_confidence_score(sd) ==
    LET score == MetadataPoints(sd.invoice_metadata) + VendorPoints(sd.vendor_details)
                 + ItemPoints(sd.line_items) + SummaryPoints(sd.summary)
    IN Min(Scale, score \div MaxScore)

\* The scorer's view of a model whose sub-objects are all there.
AllPresent(d) ==
    [invoice_metadata |-> Some(d.invoice_metadata),
     vendor_details |-> Some([name |-> d.vendor_details.name,
                              address |-> Some(d.vendor_details.address),
                              contact |-> Some(d.vendor_details.contact)]),
     line_items |-> Some([i \in DOMAIN d.line_items |-> Some(d.line_items[i])]),
     summary |-> Some(d.summary)]

\* config.ai.model
GeminiModel == <<"g", "e", "m", "i", "n", "i">>

\* StructuredInvoiceData.from_dict on a decoded response that names its
\* sections; extraction_metadata is the response's when it has one (None stands
\* for a response without the key) and the default otherwise.
from_dict(data) ==
    [extraction_metadata |-> IF data.extraction_metadata # None
                             THEN data.extraction_metadata[1] ELSE DefaultMetadata,
     invoice_metadata |-> data.invoice_metadata,
     vendor_details |-> data.vendor_details,
     customer_details |-> data.customer_details,
     line_items |-> data.line_items,
     summary |-> data.summary]

\* A _parse_response that keeps the extraction_metadata of a response that has
\* one.
_parse_response_metadata_kept(resp) ==
    IF resp.kind # "json" THEN None
    ELSE Only({ IF resp.data.extraction_metadata # None THEN Some(d)
                ELSE Some([d EXCEPT !.extraction_metadata =
                             [ExtractionMetadata("gemini_ai", Some(GeminiModel),
                                                 Some(_calculate_confidence_score(AllPresent(d))),
                                                 FALSE) EXCEPT !.errors = validate(d)]]) :
                  d \in {calculate_all_totals(from_dict(resp.data))} })

\* GeminiAIExtractor._parse_response: None for a response that json.loads or
\* from_dict rejects.  The metadata is made anew, and the issues validate()
\* finds become its errors (an empty list leaves the default, which is empty).
_parse_response(resp) ==
    IF resp.kind # "json" THEN None
    ELSE Only({ Some([d EXCEPT !.extraction_metadata =
                         [ExtractionMetadata("gemini_ai", Some(GeminiModel),
                                             Some(_calculate_confidence_score(AllPresent(d))),
                                             FALSE) EXCEPT !.errors = validate(d)]]) :
                  d \in {calculate_all_totals(from_dict(resp.data))} })

\* What a call of the adapter's extract gave its caller.
Returned(d, tag) == [called |-> TRUE, raised |-> FALSE, sd |-> d, tag |-> tag]

NotCalled == [called |-> FALSE, raised |-> FALSE, sd |-> None, tag |-> ""]

\* An extract that reports a response it cannot parse as no response.
extract_parse_unreported(resp) ==
    IF resp.kind = "raise" THEN Returned(None, "extraction_error")
    ELSE IF resp.kind \in {"no_response", "blank"} THEN Returned(None, "no_response")
    ELSE Only({ IF structured_data # None THEN Returned(structured_data, "gemini_ai")
                ELSE Returned(None, "no_response") :
                  structured_data \in {_parse_response(resp)} })

\* GeminiAIExtractor.extract on an initialized model, given what the service
\* answers (resp).  "raise" is an exception raised inside the try block of
\* extract and outside the handlers of its helpers: "except Exception" ends
\* the call with no model and the tag "extraction_error".  "no_response" is
\* _generate_with_retry giving None, "blank" its giving "" (text of white space
\* only, stripped): "if not response" takes both.
extract(resp) ==
    IF resp.kind = "raise" THEN Returned(None, "extraction_error")
    ELSE IF resp.kind \in {"no_response", "blank"} THEN Returned(None, "no_response")
    ELSE Only({ IF structured_data # None THEN Returned(structured_data, "gemini_ai")
                ELSE Returned(None, "parse_error") :
                  structured_data \in {_parse_response(resp)} })

(***************************************************************************)
(* InvoiceProcessor: fields, the pattern-based path, the orchestrator      *)
(***************************************************************************)
\* \s*
S0 == Cls(Space, 0, Unbounded, TRUE)

One(c) == Lit(<< <<c>> >>)

\* [A-Z0-9\-\/]+ under re.IGNORECASE
CODE == Cls(Upper \cup Lower \cup Digit \cup {"-", "/"}, 1, Unbounded, TRUE)

\* label\s*#?\s*:?\s*([A-Z0-9\-\/]+)
NumberAfter(label) ==
    [parts |-> <<Lit(<<label>>), S0, Opt(One("#")), S0, Opt(One(":")), S0, CODE>>, group |-> 7]

\* label\s*:?\s*₹?\$?€?£?([0-9,]+\.?\d{0,2})
AmountAfter(label) ==
    [parts |-> label \o <<S0, Opt(One(":")), S0, Opt(One("₹")), Opt(One("$")), Opt(One("€")),
                        Opt(One("£")), AMT>>,
     group |-> Len(label) + 8]

W_invoice == <<"i", "n", "v", "o", "i", "c", "e">>

W_date == <<"d", "a", "t", "e">>

\* \d{1,2}[\/\-\.]\d{1,2}[\/\-\.]\d{2,4}
DMY ==
    Cat(<<Cls(Digit, 1, 2, TRUE), Cls({"/", "-", "."}, 1, 1, TRUE), Cls(Digit, 1, 2, TRUE),
          Cls({"/", "-", "."}, 1, 1, TRUE), Cls(Digit, 2, 4, TRUE)>>)

\* \d{4}-\d{2}-\d{2}
ISODate ==
    Cat(<<Cls(Digit, 4, 4, TRUE), One("-"), Cls(Digit, 2, 2, TRUE), One("-"),
          Cls(Digit, 2, 2, TRUE)>>)

\* label\s*:?\s*(\d{1,2}[\/\-\.]\d{1,2}[\/\-\.]\d{2,4})
DateAfter(label) ==
    [parts |-> label \o <<S0, Opt(One(":")), S0, DMY>>, group |-> Len(label) + 4]

\* [a-zA-Z0-9._%+-]+@[a-zA-Z0-9.-]+\.[a-zA-Z]{2,}
EmailShape ==
    Cat(<<Cls(Upper \cup Lower \cup Digit \cup {".", "_", "%", "+", "-"}, 1, Unbounded, TRUE),
          One("@"),
          Cls(Upper \cup Lower \cup Digit \cup {".", "-"}, 1, Unbounded, TRUE),
          One("."), Cls(Upper \cup Lower, 2, Unbounded, TRUE)>>)

W_total == <<"t", "o", "t", "a", "l">>

\* \d+\s+[A-Za-z\s\.\-,]+(?:Street|St|Avenue|...|Blvd), P\.?O\.?\s*Box\s+\d+ and
\* [A-Z][A-Za-z\s\.\-,]+,\s*[A-Z][A-Za-z\s]+,\s*\d{5,6}
AddressChars == Upper \cup Lower \cup Space \cup {".", "-", ","}

StreetAddress ==
    Cat(<<Cls(Digit, 1, Unbounded, TRUE), Cls(Space, 1, Unbounded, TRUE),
          Cls(AddressChars, 1, Unbounded, TRUE),
          Lit(<<<<"S", "t", "r", "e", "e", "t">>, <<"S", "t">>, <<"A", "v", "e", "n", "u", "e">>, <<"A", "v", "e">>, <<"R", "o", "a", "d">>, <<"R", "d">>, <<"L", "a", "n", "e">>, <<"L", "n">>, <<"D", "r", "i", "v", "e">>, <<"D", "r">>,
                <<"B", "o", "u", "l", "e", "v", "a", "r", "d">>, <<"B", "l", "v", "d">>>>)>>)

POBox ==
    Cat(<<One("P"), Opt(One(".")), One("O"), Opt(One(".")), S0, Lit(<<<<"B", "o", "x">>>>),
          Cls(Space, 1, Unbounded, TRUE), Cls(Digit, 1, Unbounded, TRUE)>>)

CityStateZip ==
    Cat(<<Cls(Upper \cup Lower, 1, 1, TRUE), Cls(AddressChars, 1, Unbounded, TRUE), One(","),
          S0, Cls(Upper \cup Lower, 1, 1, TRUE),
          Cls(Upper \cup Lower \cup Space, 1, Unbounded, TRUE), One(","), S0,
          Cls(Digit, 5, 6, TRUE)>>)

\* [+]?[\d\s\-\(\)]{10,15}
PhoneShape ==
    Cat(<<Opt(One("+")), Cls(Digit \cup Space \cup {"-", "(", ")"}, 10, 15, TRUE)>>)

\* [A-Z][A-Za-z\s&\.\-,]+ under re.IGNORECASE
PartyName ==
    Cat(<<Cls(Upper \cup Lower, 1, 1, TRUE),
          Cls(Upper \cup Lower \cup Space \cup {"&", ".", "-", ","}, 1, Unbounded, TRUE)>>)

\* self.patterns: each field's patterns in list order, with the node group(1) is.
FieldPatterns(field_type) ==
    CASE field_type = "invoice_number" ->
           <<NumberAfter(W_invoice), NumberAfter(<<"i", "n", "v">>), NumberAfter(<<"b", "i", "l", "l">>),
             NumberAfter(<<"r", "e", "c", "e", "i", "p", "t">>),
             [parts |-> <<One("#"), S0, CODE>>, group |-> 3],
             [parts |-> <<Lit(<<W_invoice>>), S0, Lit(<< <<"n", "o">> >>), Opt(One(".")), S0,
                          Opt(One(":")), S0, CODE>>, group |-> 8]>>
      [] field_type = "total" ->
           <<AmountAfter(<<Lit(<<W_total>>)>>),
             AmountAfter(<<Lit(<< <<"a", "m", "o", "u", "n", "t">> >>), S0, Lit(<< <<"d", "u", "e">> >>)>>),
             AmountAfter(<<Lit(<< <<"g", "r", "a", "n", "d">> >>), S0, Lit(<<W_total>>)>>),
             AmountAfter(<<Lit(<< <<"n", "e", "t">> >>), S0, Lit(<< <<"a", "m", "o", "u", "n", "t">> >>)>>),
             AmountAfter(<<Lit(<< <<"b", "a", "l", "a", "n", "c", "e">> >>), S0, Lit(<< <<"d", "u", "e">> >>)>>)>>
      [] field_type = "date" ->
           <<DateAfter(<<Lit(<<W_date>>)>>),
             DateAfter(<<Lit(<<W_invoice>>), S0, Lit(<<W_date>>)>>),
             DateAfter(<<Lit(<< <<"b", "i", "l", "l">> >>), S0, Lit(<<W_date>>)>>),
             [parts |-> <<ISODate>>, group |-> 1],
             [parts |-> <<DMY>>, group |-> 1]>>
      [] field_type = "vendor_address" ->
           <<[parts |-> <<StreetAddress>>, group |-> 1], [parts |-> <<POBox>>, group |-> 1],
             [parts |-> <<CityStateZip>>, group |-> 1]>>
      [] field_type = "vendor_phone" ->
           <<[parts |-> <<Lit(<<<<"p", "h", "o", "n", "e">>, <<"t", "e", "l">>, <<"m", "o", "b", "i", "l", "e">>, <<"c", "o", "n", "t", "a", "c", "t">>>>), S0, Opt(One(":")), S0,
                          PhoneShape>>, group |-> 5],
             [parts |-> <<PhoneShape>>, group |-> 1]>>
      [] field_type = "vendor_email" -> <<[parts |-> <<EmailShape>>, group |-> 1]>>
      [] field_type = "customer" ->
           <<[parts |-> <<Alt(<<Cat(<<Lit(<<<<"b", "i", "l", "l">>>>), S0, Lit(<<<<"t", "o">>>>)>>),
                                Lit(<<<<"c", "u", "s", "t", "o", "m", "e", "r">>, <<"c", "l", "i", "e", "n", "t">>>>)>>),
                          S0, Opt(One(":")), S0, PartyName>>, group |-> 5],
             [parts |-> <<Alt(<<Cat(<<Lit(<<<<"s", "h", "i", "p">>>>), S0, Lit(<<<<"t", "o">>>>)>>),
                                Cat(<<Lit(<<<<"d", "e", "l", "i", "v", "e", "r">>>>), S0, Lit(<<<<"t", "o">>>>)>>)>>),
                          S0, Opt(One(":")), S0, PartyName>>, group |-> 5]>>
      [] OTHER -> <<>>

RECURSIVE FirstField_last_match(_, _, _)
\* A cascade that gives the match of the last pattern that matches.
FirstField_last_match(patterns, k, s) ==
    IF k > Len(patterns) THEN None
    ELSE LET later == FirstField_last_match(patterns, k + 1, s)
             m     == Search(patterns[k].parts, s)
         IN IF later # None THEN later
            ELSE IF m # <<>> THEN Some(Strip(Group(m, s, patterns[k].group)))
            ELSE None

RECURSIVE FirstField(_, _, _)
FirstField(patterns, k, s) ==
    IF k > Len(patterns) THEN None
    ELSE LET m == Search(patterns[k].parts, s) IN
         IF m # <<>> THEN Some(Strip(Group(m, s, patterns[k].group)))
         ELSE FirstField(patterns, k + 1, s)

\* The first lines _extract_vendor_name looks at.
HeaderLines == 10

\* skip_words and company_indicators
SkipWords == <<<<"i", "n", "v", "o", "i", "c", "e">>, <<"b", "i", "l", "l">>, <<"r", "e", "c", "e", "i", "p", "t">>, <<"t", "a", "x">>, <<"d", "a", "t", "e">>, <<"n", "u", "m", "b", "e", "r">>, <<"p", "a", "g", "e">>>>

CompanyIndicators ==
    <<<<"i", "n", "c">>, <<"l", "l", "c">>, <<"c", "o", "r", "p">>, <<"l", "t", "d">>, <<"c", "o">>, <<"c", "o", "m", "p", "a", "n", "y">>, <<"c", "o", "r", "p", "o", "r", "a", "t", "i", "o", "n">>, <<"l", "i", "m", "i", "t", "e", "d">>, <<"p", "v", "t">>,
      <<"p", "r", "i", "v", "a", "t", "e">>>>

\* re.sub(r'[^\w\s&\.\-,]', '', line).strip()
CleanedName(line) ==
    Strip(Keep(line, Upper \cup Lower \cup Digit \cup Space \cup {"_", "&", ".", "-", ","}))

\* line.isdigit()
IsDigits(line) == line # <<>> /\ \A k \in DOMAIN line : line[k] \in Digit

\* Whether the header scan returns this (stripped) line.
HeaderAccepts(line) ==
    /\ Len(line) >= 3
    /\ ~HasWord(line, SkipWords)
    /\ \/ HasWord(line, CompanyIndicators)
       \/ (Len(line) > 5 /\ line[1] \in Upper /\ ~IsDigits(line))
    /\ Len(CleanedName(line)) > 3

RECURSIVE HeaderScan(_, _)
\* for i, line in enumerate(lines[:10]): the cleaned name of the first line the
\* scan accepts, None when it accepts none.
HeaderScan(lines, i) ==
    IF i > Len(lines) \/ i > HeaderLines THEN None
    ELSE IF HeaderAccepts(Strip(lines[i])) THEN Some(CleanedName(Strip(lines[i])))
    ELSE HeaderScan(lines, i + 1)

\* [A-Z] and [A-Za-z\s&\.\-,] under re.IGNORECASE
NameStart == Cls(Upper \cup Lower, 1, 1, TRUE)

NameChars == Upper \cup Lower \cup Space \cup {"&", ".", "-", ","}

\* self.patterns["vendor"]
VendorPatterns ==
    <<[parts |-> <<MBol,
                   Cat(<<NameStart, Cls(NameChars, 1, Unbounded, TRUE),
                         Lit(<<<<"I", "n", "c">>, <<"L", "L", "C">>, <<"C", "o", "r", "p">>, <<"L", "t", "d">>, <<"C", "o">>, <<"C", "o", "m", "p", "a", "n", "y">>, <<"C", "o", "r", "p", "o", "r", "a", "t", "i", "o", "n">>,
                               <<"L", "i", "m", "i", "t", "e", "d">>, <<"P", "v", "t">>, <<"P", "r", "i", "v", "a", "t", "e">>, <<"L", "L", "P">>, <<"P", "a", "r", "t", "n", "e", "r", "s", "h", "i", "p">>>>),
                         Opt(One("."))>>)>>,
       group |-> 2],
      [parts |-> <<MBol, Cat(<<NameStart, Cls(NameChars, 5, 50, TRUE)>>)>>, group |-> 2],
      [parts |-> <<Alt(<<Lit(<<<<"f", "r", "o", "m">>>>), Cat(<<Lit(<<<<"b", "i", "l", "l">>>>), S0, Lit(<<<<"f", "r", "o", "m">>>>)>>)>>),
                   S0, Opt(One(":")), S0,
                   Cat(<<NameStart, Cls(NameChars, 1, Unbounded, TRUE)>>)>>,
       group |-> 5],
      [parts |-> <<Lit(<<<<"v", "e", "n", "d", "o", "r">>, <<"s", "u", "p", "p", "l", "i", "e", "r">>>>), S0, Opt(One(":")), S0,
                   Cat(<<NameStart, Cls(NameChars, 1, Unbounded, TRUE)>>)>>,
       group |-> 5]>>

\* A resolver that goes straight to the patterns.
_extract_vendor_name_patterns_only(text) == FirstField(VendorPatterns, 1, JoinLines(text))

\* InvoiceProcessor._extract_vendor_name: the header scan, then the patterns on
\* the text as it is.
_extract_vendor_name(text) ==
    Only({ IF found # None THEN found ELSE FirstField(VendorPatterns, 1, JoinLines(text)) :
             found \in {HeaderScan(text, 1)} })

\* InvoiceProcessor.extract_field: "vendor" goes to _extract_vendor_name, every
\* other field to its patterns on the lower-cased text.
extract_field(text, field_type) ==
    IF field_type = "vendor" THEN _extract_vendor_name(text)
    ELSE FirstField(FieldPatterns(field_type), 1, Lowered(JoinLines(text)))

\* The fixed confidence of a pattern-based result, in hundredths.
RegexConfidence == 60

\* 'tax' in item.get('description', '').lower() or item.get('item_type') == 'tax'
IsTaxItem(item) == Contains(item.description, <<"t", "a", "x">>) \/ item.item_type = "tax"

\* float(re.sub(r"[^\d\.]", "", total)); None where the try block passes
TotalAmount(total) ==
    IF total = None \/ total[1] = <<>> THEN None
    ELSE ParseFloat(Keep(total[1], Digit \cup {"."}))

\* The days of month m of year y.
DaysIn(m, y) ==
    IF m \in {4, 6, 9, 11} THEN 30
    ELSE IF m # 2 THEN 31
    ELSE IF y % 4 = 0 /\ (y % 100 # 0 \/ y % 400 = 0) THEN 29
    ELSE 28

\* strftime("%Y-%m-%d")
IsoFormat(y, m, d) ==
    NatStr(y) \o <<"-">> \o (IF m < 10 THEN <<"0">> ELSE <<>>) \o NatStr(m)
              \o <<"-">> \o (IF d < 10 THEN <<"0">> ELSE <<>>) \o NatStr(d)

\* dateutil's parser.parse(date).strftime("%Y-%m-%d") for a date of three
\* numbers, one of them a year of four digits, as the date patterns capture it:
\* None where parse raises.  A leading year is followed by month and day; with
\* a trailing year the first number is the month unless it is over 12, and then
\* it is the day (over 31 it is taken for a year, and parse raises).
parser_parse(date) ==
    Only({ IF Len(n[1]) = 4
           THEN (IF DigitsVal(n[2]) \in 1..12
                    /\ DigitsVal(n[3]) \in 1..DaysIn(DigitsVal(n[2]), DigitsVal(n[1]))
                 THEN Some(IsoFormat(DigitsVal(n[1]), DigitsVal(n[2]), DigitsVal(n[3])))
                 ELSE None)
           ELSE Only({ IF ymd[2] \in 1..12 /\ ymd[3] \in 1..DaysIn(ymd[2], ymd[1])
                       THEN Some(IsoFormat(ymd[1], ymd[2], ymd[3]))
                       ELSE None :
                         ymd \in {IF DigitsVal(n[1]) > 12
                                  THEN <<DigitsVal(n[3]), DigitsVal(n[2]), DigitsVal(n[1])>>
                                  ELSE <<DigitsVal(n[3]), DigitsVal(n[1]), DigitsVal(n[2])>>} }) :
             n \in {Split(date, {"/", "-", "."})} })

\* Truthiness of an extracted field: None and "" are falsy.
Found(o) == o # None /\ o[1] # <<>>

\* Address(): nothing known.  Of an address the model keeps street and city.
NoAddress == [street |-> None, city |-> None]

\* Contact(): nothing known
NoContact == [email |-> None, phone |-> None]

\* CustomerDetails(): nothing known
NoCustomer == [name |-> None, address |-> NoAddress, contact |-> NoContact]

\* invoice_metadata.invoice_date: the parsed date in ISO form, the date as
\* extracted where parse raises, None without a date.
ConvertedDate(date) ==
    IF ~Found(date) THEN None
    ELSE Only({ IF parsed_date # None THEN parsed_date ELSE date :
                  parsed_date \in {parser_parse(date[1])} })

\* vendor_details.address from vendor_address.split(',')
ConvertedAddress(vendor_address) ==
    IF ~Found(vendor_address) THEN NoAddress
    ELSE Only({ [street |-> Some(Strip(address_parts[1])),
                 city |-> IF Len(address_parts) >= 2 THEN Some(Strip(address_parts[2]))
                          ELSE None] :
                  address_parts \in {Split(vendor_address[1], {","})} })

\* _convert_regex_to_structured from the model's construction on, given the
\* fields (f) and the line items it extracted.
ConvertExtracted(f, line_items) ==
    LET items        == [i \in DOMAIN line_items |->
                           LineItem_calculate_totals(
                               LineItem(Some(line_items[i].description),
                                        Some(line_items[i].quantity),
                                        line_items[i].unit_price,
                                        Some(line_items[i].amount), Some(0), Some(0),
                                        Some(line_items[i].amount),
                                        line_items[i].item_type))]
        total_amount == TotalAmount(f.total)
        tax_items    == SelectSeq(line_items, IsTaxItem)
        summary      == [DefaultSummary EXCEPT
                           !.grand_total = IF total_amount # None THEN total_amount ELSE @,
                           !.total_tax = IF tax_items # <<>>
                                         THEN Some(SumSeq([i \in DOMAIN tax_items |->
                                                             tax_items[i].amount]))
                                         ELSE @]
    IN calculate_all_totals(
           [extraction_metadata |-> ExtractionMetadata("regex_fallback", None,
                                                       Some(RegexConfidence), TRUE),
            invoice_metadata |-> [invoice_number |-> f.invoice_number,
                                  invoice_date |-> ConvertedDate(f.date),
                                  due_date |-> None],
            vendor_details |-> [name |-> f.vendor,
                                address |-> ConvertedAddress(f.vendor_address),
                                contact |-> [email |-> IF Found(f.vendor_email)
                                                       THEN f.vendor_email ELSE None,
                                             phone |-> IF Found(f.vendor_phone)
                                                       THEN f.vendor_phone ELSE None]],
            customer_details |-> [NoCustomer EXCEPT
                                    !.name = IF Found(f.customer) THEN f.customer ELSE None],
            line_items |-> items,
            summary |-> summary])

\* InvoiceProcessor._convert_regex_to_structured
_convert_regex_to_structured(text) ==
    Only({ ConvertExtracted(f, line_items) :
             f \in {[field_type \in {"invoice_number", "date", "vendor", "total",
                                     "vendor_address", "vendor_phone", "vendor_email",
                                     "customer"} |-> extract_field(text, field_type)]},
             line_items \in {extract_line_items(text)} })

\* InvoiceProcessor._extract_with_regex_only
_extract_with_regex_only(text) ==
    Only({ [invoice_number |-> extract_field(text, "invoice_number"),
            date |-> IF Found(date) THEN ConvertedDate(date) ELSE date,
            vendor |-> extract_field(text, "vendor"),
            total |-> IF Found(total) THEN Some(Keep(total[1], Digit \cup {"."})) ELSE total,
            line_items |-> extract_line_items(text),
            processed_at |-> ClockNow,
            extraction_method |-> "regex_only"] :
             total \in {extract_field(text, "total")},
             date \in {extract_field(text, "date")} })

\* The confidence a smart result must exceed, in hundredths.
ConfidenceThreshold == 30

\* A gate that also accepts a confidence of exactly the threshold.
Accepted_inclusive(r) ==
    /\ ~r.raised
    /\ r.sd # None
    /\ r.sd[1].extraction_metadata.confidence_score[1] >= 30

\* A gate that asks for a confidence over one half.
Accepted_half(r) ==
    /\ ~r.raised
    /\ r.sd # None
    /\ r.sd[1].extraction_metadata.confidence_score[1] > 50

\* structured_data and structured_data.extraction_metadata.confidence_score > 0.3
Accepted(r) ==
    /\ ~r.raised
    /\ r.sd # None
    /\ r.sd[1].extraction_metadata.confidence_score[1] > ConfidenceThreshold

\* An orchestrator that asks the adapter again after a result it does not accept.
AdapterCalls_retry(available, r) == IF ~available THEN 0 ELSE IF Accepted(r) THEN 1 ELSE 2

\* The calls of gemini_extractor.extract one orchestrator call makes.
AdapterCalls(available, r) == IF available THEN 1 ELSE 0

\* An orchestrator that falls back whatever the flag says.
_extract_with_ai_fallback_always(text, available, fallback, resp) ==
    Only({ IF available /\ Accepted(r)
           THEN [sd |-> r.sd, tag |-> r.tag, raised |-> FALSE, adapter |-> r,
                 extract_calls |-> AdapterCalls(available, r), regex_runs |-> 0]
           ELSE [sd |-> Some(_convert_regex_to_structured(text)), tag |-> "regex_fallback",
                 raised |-> FALSE, adapter |-> r,
                 extract_calls |-> AdapterCalls(available, r), regex_runs |-> 1] :
             r \in {IF available THEN extract(resp) ELSE NotCalled} })

\* InvoiceProcessor._extract_with_ai_fallback, r being what the adapter's
\* extract gave.  An exception in the try block (the warning's f-string reads
\* structured_data.extraction_metadata when there is no model) is caught and
\* logged; the call then goes on to the fallback.
_extract_with_ai_fallback(text, available, fallback, resp) ==
    Only({ IF available /\ Accepted(r)
           THEN [sd |-> r.sd, tag |-> r.tag, raised |-> FALSE, adapter |-> r,
                 extract_calls |-> AdapterCalls(available, r), regex_runs |-> 0]
           ELSE IF fallback
           THEN [sd |-> Some(_convert_regex_to_structured(text)), tag |-> "regex_fallback",
                 raised |-> FALSE, adapter |-> r,
                 extract_calls |-> AdapterCalls(available, r), regex_runs |-> 1]
           ELSE [sd |-> None, tag |-> "extraction_failed", raised |-> FALSE, adapter |-> r,
                 extract_calls |-> AdapterCalls(available, r), regex_runs |-> 0] :
             r \in {IF available THEN extract(resp) ELSE NotCalled} })

\* What process_invoice gives its caller: None, a record, or an exception.
RetNone == [kind |-> "none"]

RetRaised == [kind |-> "raised"]

RetRecord(data, raw_text) == [kind |-> "record", data |-> data, raw_text |-> raw_text]

\* A process_invoice without the check for empty text.
NoText_unchecked(text) == FALSE

\* if not text
NoText(text) == JoinLines(text) = <<>>

\* The outcome of an orchestrator call that was never made.
NoOutcome == [sd |-> None, tag |-> "", raised |-> FALSE, adapter |-> NotCalled,
              extract_calls |-> 0, regex_runs |-> 0]

\* process_invoice after the text is recovered: the orchestrator's outcome and
\* what is returned.
process_invoice(text, available, fallback, resp) ==
    IF NoText(text) THEN [o |-> NoOutcome, ret |-> RetNone]
    ELSE Only({ IF o.sd # None
                THEN [o |-> o,
                      ret |-> IF get_legacy_format(o.sd[1]) = None THEN RetRaised
                              ELSE RetRecord(get_legacy_format(o.sd[1])[1], text)]
                ELSE [o |-> [o EXCEPT !.regex_runs = @ + 1],
                      ret |-> RetRecord(_extract_with_regex_only(text), text)] :
                  o \in {_extract_with_ai_fallback(text, available, fallback, resp)} })

\* upload_file's branches on what process_invoice gave: the success flash, the
\* "could not extract invoice data" warning, or the "processing failed" warning
\* of its except clause.
Flash(r) ==
    IF r.kind = "raised" THEN "processing_failed"
    ELSE IF r.kind = "none" THEN "could_not_extract"
    ELSE "success"

(***************************************************************************)
(* Uploads: the documents, configurations and service answers explored     *)
(***************************************************************************)
MaxTextLines == 2

\* Lines of recovered text: two item lines, a tax line, a total and a number.
DocLines ==
    { <<"2", " ", "W", "i", "d", "g", "e", "t", " ", "1", "0", ".", "0", "0">>,
      <<"P", "e", "n", " ", "2", " ", "5", ".", "0", "0", " ", "1", "2", ".", "0", "0">>,
      <<"C", "G", "S", "T", " ", "1", "8", ".", "0", "0">>,
      <<"T", "o", "t", "a", "l", ":", " ", "9", "9", ".", "0", "0">>,
      <<"I", "n", "v", "o", "i", "c", "e", " ", "#", "A", "-", "1">> }

\* The text of scenario 1.
Scenario1 ==
    <<<<"I", "n", "v", "o", "i", "c", "e", " ", "#", "I", "N", "V", "-", "2", "0", "2", "4", "-", "0", "0", "1">>,
        <<"D", "a", "t", "e", ":", " ", "2", "0", "2", "4", "-", "0", "8", "-", "1", "3">>,
        <<"A", "C", "M", "E", " ", "C", "o", "r", "p", " ", "I", "n", "c", ".">>,
        <<"W", "e", "b", " ", "D", "e", "v", "e", "l", "o", "p", "m", "e", "n", "t", " ", "S", "e", "r", "v", "i", "c", "e", "s", " ", "1", " ", "2", "5", "0", "0", ".", "0", "0">>,
        <<"T", "o", "t", "a", "l", ":", " ", "2", "5", "0", "0", ".", "0", "0">>>>

\* A text whose date no calendar holds, one with a day-first date, and one with
\* the vendor's address and e-mail and the customer's name.
DatedTexts ==
    { <<<<"I", "n", "v", "o", "i", "c", "e", " ", "#", "A", "-", "1">>,
        <<"D", "a", "t", "e", ":", " ", "9", "9", "/", "9", "9", "/", "2", "0", "2", "4">>,
        <<"2", " ", "W", "i", "d", "g", "e", "t", " ", "1", "0", ".", "0", "0">>>>,
      <<<<"D", "a", "t", "e", ":", " ", "1", "3", "/", "0", "8", "/", "2", "0", "2", "4">>,
        <<"T", "o", "t", "a", "l", ":", " ", "9", "9", ".", "0", "0">>>>,
      <<<<"A", "C", "M", "E", " ", "C", "o", "r", "p", " ", "I", "n", "c", ".">>,
        <<"1", "2", " ", "M", "a", "i", "n", " ", "S", "t", "r", "e", "e", "t", ",", " ", "S", "p", "r", "i", "n", "g", "f", "i", "e", "l", "d">>,
        <<"b", "i", "l", "l", "i", "n", "g", "@", "a", "c", "m", "e", ".", "c", "o", "m">>,
        <<"B", "i", "l", "l", " ", "T", "o", ":", " ", "B", "o", "b", " ", "R", "a", "y">>>> }

\* A text with a discount line after an item line.
DiscountText ==
    <<<<"2", " ", "W", "i", "d", "g", "e", "t", " ", "1", "0", ".", "0", "0">>,
      <<"L", "e", "s", "s", " ", "d", "i", "s", "c", "o", "u", "n", "t", " ", "5", ".", "0", "0">>>>

Texts == SeqsUpTo(DocLines, MaxTextLines) \cup {Scenario1, DiscountText} \cup DatedTexts

\* Line items a response may carry: a priced product with a tax rate, an item
\* of nulls, a tax line, and an empty item of zeros.
JsonProduct ==
    LineItem(Some(<<"W", "i", "d", "g", "e", "t">>), Some(200), Some(500), Some(0), Some(10),
             None, None, "product")

JsonNulls == LineItem(None, None, None, None, None, None, None, "other")

JsonTax ==
    LineItem(Some(<<"V", "A", "T">>), Some(100), None, Some(1800), Some(0), Some(1800),
             Some(0), "tax")

JsonEmpty == LineItem(Some(<<>>), Some(0), None, Some(0), Some(0), Some(0), Some(0), "other")

JsonItemLists ==
    { <<>>, <<JsonProduct>>, <<JsonNulls>>, <<JsonEmpty>>, <<JsonProduct, JsonTax>> }

\* Summaries a response may carry: zeros, and totals that disagree with any items.
JsonSummaries ==
    { Summary(Some(0), Some(0), Some(0), Some(0), Some(0)),
      Summary(Some(77700), Some(5500), Some(500), Some(2500), Some(99900)) }

\* A line item with a negative quantity and a tax rate of 150%.
JsonWrong ==
    LineItem(Some(<<"P", "e", "n">>), Some(-100), Some(500), None, Some(150), None, None,
             "product")

\* A complete response, given its dates, its two e-mail addresses and its items.
JsonInvoice(invoice_date, due_date, vendor_email, customer_email, items) ==
    [invoice_metadata |-> [invoice_number |-> Some(<<"A", "-", "1">>),
                           invoice_date |-> invoice_date, due_date |-> due_date],
     vendor_details |-> [name |-> Some(<<"A", "C", "M", "E">>),
                         address |-> [street |-> Some(<<"1", " ", "M", "a", "i", "n">>),
                                      city |-> None],
                         contact |-> [email |-> vendor_email, phone |-> None]],
     customer_details |-> [NoCustomer EXCEPT !.contact.email = customer_email],
     line_items |-> items,
     summary |-> Summary(Some(0), Some(0), Some(0), Some(0), Some(0)),
     extraction_metadata |-> None]

\* Responses with dates that are not ISO dates, e-mail addresses that are not
\* addresses, and items that do not validate.
JsonFlawed ==
    { JsonInvoice(Some(<<"1", "3", "/", "0", "8", "/", "2", "0", "2", "4">>), Some(<<"s", "o", "o", "n">>), None, None, <<JsonProduct>>),
      JsonInvoice(Some(<<"2", "0", "2", "4", "-", "0", "8", "-", "1", "3">>), Some(<<"2", "0", "2", "4", "-", "0", "8", "-", "1", "3">>), Some(<<"b", "i", "l", "l", "i", "n", "g", "@", "a", "c", "m", "e">>), Some(<<"b", "o", "b", "@", "e", "x", "a", "m", "p", "l", "e", ".", "c", "o", "m">>), <<JsonProduct>>),
      JsonInvoice(Some(<<"2", "0", "2", "4", "-", "0", "8", "-", "1", "3">>), None, Some(<<"b", "o", "b", "@", "e", "x", "a", "m", "p", "l", "e", ".", "c", "o", "m">>), Some(<<"b", "o", "b">>), <<JsonProduct, JsonWrong>>),
      JsonInvoice(Some(<<"2", "0", "2", "4", "-", "0", "8", "-", "1", "3">>), Some(<<>>), Some(<<>>), None, <<JsonProduct, JsonNulls, JsonWrong>>) }

\* A line item in the category "shipping", which the prompt offers with the
\* others ("product/service/tax/discount/shipping/other").
JsonShipping ==
    LineItem(Some(<<"F", "r", "e", "i", "g", "h", "t">>), Some(100), Some(2500), None, Some(0), None, None, "shipping")

JsonShipped ==
    { JsonInvoice(Some(<<"2", "0", "2", "4", "-", "0", "8", "-", "1", "3">>), None, None, None, <<JsonProduct, JsonShipping>>) }

\* The extraction_metadata a response gives of itself: a confidence of 0.99, a
\* method, a model and an error of its own.
JsonOwnMetadata ==
    [ExtractionMetadata("manual", Some(<<"o", "t", "h", "e", "r">>), Some(99), TRUE) EXCEPT
       !.extracted_at = <<"t", "h", "e", "n">>, !.errors = <<Issue(0, "stale")>>]

\* Responses that carry an extraction_metadata: one that says nothing else of
\* the invoice but a due date that is no date, and a complete one.
JsonSelfDescribed ==
    { [invoice_metadata |-> [invoice_number |-> None, invoice_date |-> None,
                             due_date |-> Some(<<"l", "a", "t", "e", "r">>)],
       vendor_details |-> [name |-> None, address |-> NoAddress, contact |-> NoContact],
       customer_details |-> NoCustomer,
       line_items |-> <<>>,
       summary |-> Summary(Some(0), Some(0), Some(0), Some(0), Some(0)),
       extraction_metadata |-> Some(JsonOwnMetadata)],
      [JsonInvoice(Some(<<"2", "0", "2", "4", "-", "0", "8", "-", "1", "3">>), None, None, None, <<JsonProduct>>) EXCEPT
         !.extraction_metadata = Some(JsonOwnMetadata)] }

JsonData ==
    { [invoice_metadata |-> [invoice_number |-> n, invoice_date |-> d, due_date |-> None],
       vendor_details |-> [name |-> v, address |-> NoAddress, contact |-> NoContact],
       customer_details |-> NoCustomer,
       line_items |-> items,
       summary |-> sm,
       extraction_metadata |-> None] :
        n \in {None, Some(<<"A", "-", "1">>)},
        d \in {None, Some(<<"2", "0", "2", "4", "-", "0", "8", "-", "1", "3">>)},
        v \in {None, Some(<<"A", "C", "M", "E">>)},
        items \in JsonItemLists,
        sm \in JsonSummaries }
    \cup JsonFlawed \cup JsonShipped \cup JsonSelfDescribed

\* What the service can answer a call: an exception inside extract's try
\* block, no text after the retries, text that is not JSON, JSON that from_dict
\* rejects, or a JSON document.
AdapterBehaviours ==
    { [kind |-> k, data |-> <<>>] : k \in {"raise", "no_response", "bad_json", "bad_shape"} }
    \cup { [kind |-> "json", data |-> data] : data \in JsonData }

\* The answers that matter to an upload: none is asked for when there is no
\* text or no model.
Answers(text, available) ==
    IF NoText(text) \/ ~available THEN { [kind |-> "no_response", data |-> <<>>] }
    ELSE AdapterBehaviours

ScanIdle == scan_text = <<>> /\ scan_pc = "idle" /\ scan_items = <<>>

CallIdle == call_pc = "idle" /\ call_args = <<>> /\ call_ret = <<>>

TotalsIdle ==
    /\ t_sd = [extraction_metadata |-> DefaultMetadata, line_items |-> <<>>,
               summary |-> DefaultSummary]
    /\ t_prev = t_sd
    /\ t_calls = 0

Init ==
    /\ doc \in Texts
    /\ model_ready \in BOOLEAN
    /\ fallback_enabled \in BOOLEAN
    /\ pc = "uploaded"
    /\ adapter_ret = NotCalled
    /\ extract_calls = 0
    /\ regex_runs = 0
    /\ out_sd = None
    /\ out_tag = ""
    /\ out_raised = FALSE
    /\ ret = RetNone
    /\ flash = ""
    /\ ScanIdle
    /\ TotalsIdle
    /\ CallIdle

\* The upload route's POST of an allowed file: process_invoice and the flash.
upload_file ==
    /\ pc = "uploaded"
    /\ \E resp \in Answers(doc, model_ready) :
       \E p \in {process_invoice(doc, model_ready, fallback_enabled, resp)} :
         /\ adapter_ret' = p.o.adapter
         /\ extract_calls' = p.o.extract_calls
         /\ regex_runs' = p.o.regex_runs
         /\ out_sd' = p.o.sd
         /\ out_tag' = p.o.tag
         /\ out_raised' = p.o.raised
         /\ ret' = p.ret
         /\ flash' = Flash(p.ret)
    /\ pc' = "done"
    /\ UNCHANGED <<doc, model_ready, fallback_enabled, scan_text, scan_pc, scan_items,
                   t_sd, t_prev, t_calls, call_pc, call_args, call_ret>>

Next == upload_file

Spec == Init /\ [][Next]_vars

UploadIdle ==
    /\ doc = <<>>
    /\ model_ready = FALSE
    /\ fallback_enabled = FALSE
    /\ pc = "idle"
    /\ adapter_ret = NotCalled
    /\ extract_calls = 0
    /\ regex_runs = 0
    /\ out_sd = None
    /\ out_tag = ""
    /\ out_raised = FALSE
    /\ ret = RetNone
    /\ flash = ""

(***************************************************************************)
(* Deriving totals: calculate_all_totals applied to models, repeatedly     *)
(***************************************************************************)
MaxDerivItems == 2

MaxCalls == 2

Described == Some(<<"P", "e", "n">>)

\* Line items before derivation: quantity and unit price known or not, a
\* subtotal known or not, a tax rate unknown, zero or 10%, a tax amount unknown
\* or negative; each carries a stale total.
PricedItems ==
    { LineItem(Described, q[1], q[2], subtotal, tax_rate, tax_amount, Some(4200), "product") :
        q \in {<<None, None>>, <<Some(200), Some(500)>>},
        subtotal \in {None, Some(700)},
        tax_rate \in {None, Some(0), Some(10)},
        tax_amount \in {None, Some(0 - 300)} }

\* A tax line, an item with a zero and one with a positive tax amount at rate
\* zero, and an item of which nothing is known.
OtherItems ==
    { LineItem(Described, Some(100), None, Some(1800), Some(0), Some(1800), Some(0), "tax"),
      LineItem(Described, Some(100), None, Some(700), Some(0), Some(0), Some(4200), "service"),
      LineItem(Described, Some(100), None, Some(700), Some(0), Some(50), Some(4200), "service"),
      LineItem(None, None, None, None, None, None, None, "other") }

DerivItems == PricedItems \cup OtherItems

\* StructuredInvoiceData() with the given line items and summary
Model(line_items, summary) ==
    [extraction_metadata |-> DefaultMetadata, line_items |-> line_items, summary |-> summary]

InitTotals ==
    /\ UploadIdle
    /\ ScanIdle
    /\ CallIdle
    /\ t_sd \in { Model(items, sm) : items \in SeqsUpTo(DerivItems, MaxDerivItems),
                                     sm \in JsonSummaries }
    /\ t_prev = t_sd
    /\ t_calls = 0

\* A caller invokes calculate_all_totals on the model it holds.
call_calculate_all_totals ==
    /\ t_calls < MaxCalls
    /\ t_prev' = t_sd
    /\ t_sd' = calculate_all_totals(t_sd)
    /\ t_calls' = t_calls + 1
    /\ UNCHANGED <<doc, model_ready, fallback_enabled, pc, adapter_ret, extract_calls,
                   regex_runs, out_sd, out_tag, out_raised, ret, flash, scan_text, scan_pc, scan_items,
                   call_pc, call_args, call_ret>>

NextTotals == call_calculate_all_totals

SpecTotals == InitTotals /\ [][NextTotals]_vars

(***************************************************************************)
(* Scanning lines: extract_line_items applied to texts                     *)
(***************************************************************************)
MaxLines == 2

\* Lines that yield an item.
GoodLines ==
    { <<"2", " ", "W", "i", "d", "g", "e", "t", " ", "1", "0", ".", "0", "0">>,
      <<"P", "e", "n", " ", "2", " ", "5", ".", "0", "0", " ", "1", "2", ".", "0", "0">>,
      <<"C", "G", "S", "T", " ", "1", "8", ".", "0", "0">>,
      <<"W", "i", "d", "g", "e", "t", " ", "9", "9", "9", "9", "9", "9", ".", "0", "0">>,
      <<"1", "0", "0", "0", "0", " ", "P", "e", "n", " ", "5", ".", "0", "0">>,
      <<"S", "h", "i", "p", "p", "i", "n", "g", " ", "f", "e", "e", " ", "2", "5", ".", "0", "0">>,
      <<"D", "i", "s", "c", "o", "u", "n", "t", " ", "5", ".", "0", "0">>,
      <<"V", "A", "T", " ", "1", "8", ".", "0", "0">>,
      <<"1", ".", "5", " ", "C", "a", "b", "l", "e", " ", "1", "0", ".", "0", "0">> }

\* Lines whose draft is rejected: an amount over the limit, a quantity over the
\* limit, a description of two characters.
RejectedLines ==
    { <<"W", "i", "d", "g", "e", "t", " ", "1", "0", "0", "0", "0", "0", "0", ".", "0", "0">>,
      <<"1", "0", "0", "0", "1", " ", "P", "e", "n", " ", "5", ".", "0", "0">>,
      <<"5", " ", "a", "b", " ", "1", "0", ".", "0", "0">> }

\* Lines that are skipped or match no pattern.
OtherLines ==
    { <<"T", "o", "t", "a", "l", ":", " ", "9", ".", "0", "0">>,
      <<"-", "-", "-", "-", "-">>,
      <<"a", " ", "1">> }

SampleLines == GoodLines \cup RejectedLines \cup OtherLines

InitLines ==
    /\ UploadIdle
    /\ TotalsIdle
    /\ CallIdle
    /\ scan_text \in SeqsUpTo(SampleLines, MaxLines)
    /\ scan_pc = "text"
    /\ scan_items = <<>>

\* A caller invokes extract_line_items on the text.
call_extract_line_items ==
    /\ scan_pc = "text"
    /\ scan_items' = extract_line_items(scan_text)
    /\ scan_pc' = "scanned"
    /\ UNCHANGED <<doc, model_ready, fallback_enabled, pc, adapter_ret, extract_calls,
                   regex_runs, out_sd, out_tag, out_raised, ret, flash, scan_text, t_sd, t_prev, t_calls,
                   call_pc, call_args, call_ret>>

NextLines == call_extract_line_items

SpecLines == InitLines /\ [][NextLines]_vars

(***************************************************************************)
(* Properties of the orchestrator and of process_invoice (Spec)            *)
(***************************************************************************)
Done == pc = "done"

\* The recovered text is the empty string.
EmptyText == doc \in {<<>>, << <<>> >>}

\* _extract_with_ai_fallback was called and has returned.
Orchestrated == Done /\ ~EmptyText

\* The adapter gave a model, and the confidence it holds.
GaveModel == adapter_ret.called /\ ~adapter_ret.raised /\ adapter_ret.sd # None

AdapterConfidence == adapter_ret.sd[1].extraction_metadata.confidence_score[1]

\* The adapter was unavailable, raised, returned no model, or returned one
\* whose confidence is at most 0.3.
NothingAccepted == ~GaveModel \/ AdapterConfidence <= 30

\* C1: with fallback enabled, whenever the adapter is unavailable, raises,
\* returns no model or returns a model of confidence <= 0.3 (0.3 included), the
\* orchestrator returns the pattern-based model: method "regex_fallback",
\* confidence 0.6, fallback_used true, and the tag "regex_fallback".
C1_FallbackLaw ==
    (Orchestrated /\ fallback_enabled /\ NothingAccepted) =>
        /\ out_sd # None
        /\ out_sd[1].extraction_metadata.method = "regex_fallback"
        /\ out_sd[1].extraction_metadata.confidence_score = Some(60)
        /\ out_sd[1].extraction_metadata.fallback_used = TRUE
        /\ out_tag = "regex_fallback"
        /\ regex_runs = 1

\* A model of confidence exactly 0.3 was discarded for the pattern-based one.
C1_Witness ==
    /\ Orchestrated /\ fallback_enabled
    /\ GaveModel /\ AdapterConfidence = 30
    /\ out_tag = "regex_fallback"
    /\ out_sd # adapter_ret.sd

\* C2: an available adapter's model of confidence > 0.3 is returned as it is,
\* with the tag "gemini_ai" and fallback_used false, and the pattern-based path
\* is not run, whatever the fallback flag.
C2_AcceptanceGate ==
    (Orchestrated /\ GaveModel /\ AdapterConfidence > 30) =>
        /\ out_sd = adapter_ret.sd
        /\ out_tag = "gemini_ai"
        /\ out_sd[1].extraction_metadata.method = "gemini_ai"
        /\ out_sd[1].extraction_metadata.fallback_used = FALSE
        /\ regex_runs = 0

\* A model of confidence 0.35 was accepted although fallback is enabled.
C2_Witness ==
    /\ Orchestrated /\ fallback_enabled
    /\ GaveModel /\ AdapterConfidence = 35
    /\ out_sd = adapter_ret.sd
    /\ out_tag = "gemini_ai"

\* C3: the orchestrator returns (null, "extraction_failed") when fallback is
\* disabled and no smart result is accepted, and returns a null model in no
\* other situation.
C3_ExtractionFailed ==
    Orchestrated =>
        /\ (~fallback_enabled /\ NothingAccepted) <=> (out_sd = None)
        /\ (out_sd = None) <=> (out_tag = "extraction_failed")

\* With fallback disabled, a model of confidence <= 0.3 gave (null,
\* "extraction_failed").
C3_Witness ==
    /\ Orchestrated /\ ~fallback_enabled
    /\ GaveModel /\ AdapterConfidence <= 30
    /\ out_sd = None
    /\ out_tag = "extraction_failed"

\* C4: when the orchestrator's outcome is (null, "extraction_failed") for a
\* non-empty text, process_invoice returns null to its caller, which reports
\* that it could not extract data, and not a populated record.
C4_ExhaustedSurfacedAsNull ==
    (Orchestrated /\ out_sd = None /\ out_tag = "extraction_failed") =>
        /\ ret.kind = "none"
        /\ flash = "could_not_extract"

\* C5: one orchestrator call invokes the adapter's extract at most once, and
\* not at all when the adapter is unavailable; it propagates no exception and
\* ends with a model or with (null, "extraction_failed").
C5_AtMostOneCall ==
    Orchestrated =>
        /\ extract_calls <= 1
        /\ (~model_ready => extract_calls = 0 /\ ~adapter_ret.called)
        /\ (adapter_ret.called => extract_calls = 1)
        /\ ~out_raised
        /\ (out_sd # None \/ out_tag = "extraction_failed")

\* The adapter ended with "extraction_error"; the orchestrator had called it
\* once and went on to return a model.
C5_Witness ==
    /\ Orchestrated
    /\ adapter_ret.tag = "extraction_error"
    /\ extract_calls = 1
    /\ ~out_raised
    /\ out_sd # None

\* C6: for an empty recovered text process_invoice returns null without
\* raising, and calls neither the adapter nor the pattern-based path.
C6_NoTextExtracted ==
    (Done /\ EmptyText) =>
        /\ ret.kind = "none"
        /\ extract_calls = 0
        /\ ~adapter_ret.called
        /\ regex_runs = 0
        /\ out_tag = ""

\* An empty text was uploaded with the adapter available and fallback enabled.
C6_Witness ==
    /\ Done /\ EmptyText
    /\ model_ready /\ fallback_enabled
    /\ ret.kind = "none"
    /\ flash = "could_not_extract"

\* The summary is what its line items, shipping and discounts give.
SummaryDerived(d) ==
    LET subtotal  == SumSeq([i \in DOMAIN d.line_items |->
                               IF d.line_items[i].category = "tax" THEN 0
                               ELSE OrZero(d.line_items[i].subtotal)])
        total_tax == SumSeq([i \in DOMAIN d.line_items |-> OrZero(d.line_items[i].tax_amount)])
    IN /\ d.summary.subtotal = Some(subtotal)
       /\ d.summary.total_tax = Some(total_tax)
       /\ d.summary.grand_total =
            Some(subtotal + total_tax + OrZero(d.summary.shipping) - OrZero(d.summary.discounts))

\* C8: in every model either path returns, summary.subtotal is the sum of the
\* subtotals of the line items that are not tax, summary.total_tax the sum of all
\* tax amounts, and grand_total = subtotal + total_tax + shipping - discounts;
\* a subtotal, total_tax or grand_total supplied before derivation does not
\* survive.
C8_SummaryDerived ==
    /\ (Done /\ out_sd # None) => SummaryDerived(out_sd[1])
    /\ (Done /\ GaveModel) => SummaryDerived(adapter_ret.sd[1])

\* An accepted model whose JSON supplied subtotal 777.00, total_tax 55.00 and
\* grand_total 999.00 over a product and a tax line holds the derived
\* 10.00, 19.00 and 49.00.
C8_Witness ==
    /\ Done /\ out_tag = "gemini_ai"
    /\ Len(out_sd[1].line_items) = 2
    /\ out_sd[1].summary.shipping = Some(2500)
    /\ out_sd[1].summary.subtotal = Some(1000)
    /\ out_sd[1].summary.total_tax = Some(1900)
    /\ out_sd[1].summary.grand_total = Some(4900)

(***************************************************************************)
(* Properties of calculate_all_totals (SpecTotals)                         *)
(***************************************************************************)
\* C7, as amended: after calculate_all_totals every line item whose subtotal
\* and tax_amount are known has total = subtotal + tax_amount, whatever the sign
\* of tax_amount; one whose subtotal is known and tax_amount unknown has
\* total = subtotal; one whose subtotal is unknown keeps the total it had.
C7_LineItemTotal ==
    t_calls >= 1 =>
        \A i \in DOMAIN t_sd.line_items :
            LET item == t_sd.line_items[i]
                held == t_prev.line_items[i]
            IN /\ (item.subtotal # None /\ item.tax_amount # None)
                    => item.total = Some(item.subtotal[1] + item.tax_amount[1])
               /\ (item.subtotal # None /\ item.tax_amount = None)
                    => item.total = item.subtotal
               /\ item.subtotal = None => item.total = held.total

\* An item of subtotal 10.00, tax_rate 0 and tax_amount -3.00 has total 7.00.
C7_Witness ==
    /\ t_calls >= 1
    /\ \E i \in DOMAIN t_sd.line_items :
         /\ t_sd.line_items[i].tax_rate = Some(0)
         /\ t_sd.line_items[i].tax_amount = Some(0 - 300)
         /\ t_sd.line_items[i].subtotal = Some(1000)
         /\ t_sd.line_items[i].total = Some(700)

\* C7 as stated: after calculate_all_totals every line item of known subtotal has
\* total = subtotal + tax_amount when tax_amount > 0, and total = subtotal
\* otherwise.
C7_AsStated ==
    t_calls >= 1 =>
        \A i \in DOMAIN t_sd.line_items :
            LET item == t_sd.line_items[i] IN
            item.subtotal # None =>
                IF item.tax_amount # None /\ item.tax_amount[1] > 0
                THEN item.total = Some(item.subtotal[1] + item.tax_amount[1])
                ELSE item.total = item.subtotal

\* C9: a second calculate_all_totals in a row leaves every line item and every
\* summary field as the first call left them.
C9_Idempotent == t_calls >= 2 => t_sd = t_prev

\* Two calls on a model of two items, one of them priced and taxed at 10%.
C9_Witness ==
    /\ t_calls = 2
    /\ Len(t_sd.line_items) = 2
    /\ t_sd.line_items[1].unit_price = Some(500)
    /\ t_sd.line_items[1].tax_amount = Some(100)
    /\ t_sd.line_items[1].total = Some(1100)
    /\ t_sd.summary.shipping = Some(2500)

(***************************************************************************)
(* Properties of extract_line_items (SpecLines)                            *)
(***************************************************************************)
\* C10: every item extract_line_items emits has a description of at least 3
\* characters, an amount in [0, 999999] and a quantity in [0, 10000]; a rejected
\* draft does not stop the lines after it from being processed, so every line
\* that yields a valid item has its item emitted.
C10_ValidatedItems ==
    scan_pc = "scanned" =>
        /\ \A i \in DOMAIN scan_items :
             /\ Len(scan_items[i].description) >= 3
             /\ scan_items[i].amount >= 0 /\ scan_items[i].amount <= 999999 * 100
             /\ scan_items[i].quantity >= 0 /\ scan_items[i].quantity <= 10000 * 100
        /\ Len(scan_items) = Cardinality({i \in DOMAIN scan_text : scan_text[i] \in GoodLines})

\* A line whose draft is rejected is followed by a line whose item is emitted.
C10_Witness ==
    /\ scan_pc = "scanned"
    /\ Len(scan_text) = 2
    /\ scan_text[1] \in RejectedLines
    /\ scan_text[2] \in GoodLines
    /\ Len(scan_items) = 1

\* The line shapes that match a line, and the lowest-numbered of a set of them.
Matching(line) == {k \in DOMAIN LinePatterns : Search(LinePatterns[k], line) # <<>>}

Lowest(K) == CHOOSE k \in K : \A j \in K : k <= j

\* The emitted items that came from a line, and how often the line occurs.
ItemsOf(line) == SelectSeq(scan_items, LAMBDA it : it.original_line = line)

Occurrences(line) == Cardinality({i \in DOMAIN scan_text : scan_text[i] = line})

\* C11: a line that is not skipped is parsed by the lowest-numbered line shape
\* that matches it and by no other, also when that draft is rejected: every item
\* that came from the line is the draft of that shape, and the line gives at most
\* one item per occurrence; a line that matches shapes 4 and 6 gives a tax item.
C11_PatternPriority ==
    scan_pc = "scanned" =>
        \A i \in DOMAIN scan_text :
            LET line == scan_text[i]
                K    == Matching(line)
            IN /\ Len(ItemsOf(line)) <= Occurrences(line)
               /\ IF Len(line) < 5 \/ Skipped(line) \/ K = {} THEN ItemsOf(line) = <<>>
                  ELSE \A j \in DOMAIN ItemsOf(line) :
                         ItemsOf(line)[j] =
                             Formatted(_parse_line_item(Search(LinePatterns[Lowest(K)], line),
                                                        Lowest(K), line)[1])
               /\ ({4, 6} \subseteq K /\ K \cap {1, 2, 3} = {} /\ ItemsOf(line) # <<>>)
                     => ItemsOf(line)[1].item_type = "tax"

\* "CGST 18.00" matches shapes 4 and 6 and gave a tax item, next to
\* "5 ab 10.00", whose shape-1 draft is rejected although shape 6 matches it too.
C11_Witness ==
    /\ scan_pc = "scanned"
    /\ scan_text = <<<<"C", "G", "S", "T", " ", "1", "8", ".", "0", "0">>, <<"5", " ", "a", "b", " ", "1", "0", ".", "0", "0">>>>
    /\ Matching(scan_text[1]) = {4, 6}
    /\ Matching(scan_text[2]) = {1, 6}
    /\ Len(scan_items) = 1
    /\ scan_items[1].item_type = "tax"

(***************************************************************************)
(* SpecCategorize: one direct call of _categorize_line_items               *)
(***************************************************************************)
MaxItems == 2

\* Lines whose parsed items are given to the categorizer: a product, a fractional
\* quantity, a tax line, a tax keyword on a line of type other, a service line, a
\* service keyword on a line of type other, a discount, a discount that also
\* names a tax, and a line of no keyword.
CategorizeLines ==
    { <<"2", " ", "W", "i", "d", "g", "e", "t", " ", "1", "0", ".", "0", "0">>, <<"1", ".", "5", " ", "C", "a", "b", "l", "e", " ", "1", "0", ".", "0", "0">>, <<"C", "G", "S", "T", " ", "1", "8", ".", "0", "0">>, <<"V", "A", "T", " ", "1", "8", ".", "0", "0">>,
      <<"S", "h", "i", "p", "p", "i", "n", "g", " ", "f", "e", "e", " ", "2", "5", ".", "0", "0">>, <<"H", "a", "n", "d", "l", "i", "n", "g", " ", "3", ".", "0", "0">>, <<"D", "i", "s", "c", "o", "u", "n", "t", " ", "5", ".", "0", "0">>,
      <<"G", "S", "T", " ", "d", "i", "s", "c", "o", "u", "n", "t", " ", "5", ".", "0", "0">>, <<"M", "i", "s", "c", " ", "i", "t", "e", "m", " ", "7", ".", "0", "0">> }

\* A credit: an amount below zero, which the parser never gives (it rejects
\* one) and only a direct call of the method can pass.
CreditItem ==
    Draft("product", Scale, <<"R", "e", "f", "u", "n", "d">>, None, 0 - 5 * Scale, None, <<"R", "e", "f", "u", "n", "d", " ", "-", "5", ".", "0", "0">>)

CategorizeItems == {ParseLine(l)[1] : l \in CategorizeLines} \cup {CreditItem}

InitCategorize ==
    /\ UploadIdle
    /\ ScanIdle
    /\ TotalsIdle
    /\ call_pc = "_categorize_line_items"
    /\ call_args \in SeqsUpTo(CategorizeItems, MaxItems)
    /\ call_ret = <<>>

\* The call: what it returns, and its local categorized as it is at the return.
call_categorize_line_items ==
    /\ call_pc = "_categorize_line_items"
    /\ call_ret' = [all_items |-> _categorize_line_items(call_args),
                    categorized |-> Categorized(call_args)]
    /\ call_pc' = "returned _categorize_line_items"
    /\ UNCHANGED <<doc, model_ready, fallback_enabled, pc, adapter_ret, extract_calls,
                   regex_runs, out_sd, out_tag, out_raised, ret, flash,
                   scan_text, scan_pc, scan_items, t_sd, t_prev, t_calls, call_args>>

NextCategorize == call_categorize_line_items

SpecCategorize == InitCategorize /\ [][NextCategorize]_vars

(***************************************************************************)
(* Properties of the categorizer                                           *)
(***************************************************************************)
Categorize_returned == call_pc = "returned _categorize_line_items"

Amounts(items) == SumSeq([i \in DOMAIN items |-> items[i].amount])

\* The four tests of the classification, each by itself.
TaxRule(item) == item.item_type = "tax" \/ HasWord(item.description, TaxWords)

DiscountRule(item) == Contains(item.description, DiscountWord) \/ item.amount < 0

ServiceRule(item) == item.item_type = "service" \/ HasWord(item.description, ServiceWords)

ProductRule(item) == item.item_type = "product"

FirstRule(item) ==
    CASE TaxRule(item) -> "taxes"
      [] ~TaxRule(item) /\ DiscountRule(item) -> "discounts"
      [] ~TaxRule(item) /\ ~DiscountRule(item) /\ ServiceRule(item) -> "services"
      [] ~TaxRule(item) /\ ~DiscountRule(item) /\ ~ServiceRule(item) /\ ProductRule(item)
           -> "products"
      [] OTHER -> "other"

\* C12: the categorizer puts every item in exactly one bucket, the one of the
\* first rule it meets in the order tax, discount, service, product, other; its
\* summary has tax_total equal to the sum of the amounts of the taxes bucket,
\* subtotal equal to the sum over services, products and other (discounts left
\* out) and grand_total equal to subtotal + tax_total.
C12_Categorized ==
    Categorize_returned =>
        LET c == call_ret.categorized IN
        /\ \A b \in {"products", "services", "taxes", "discounts", "other"} :
             c[b] = SelectSeq(call_args, LAMBDA it : FirstRule(it) = b)
        /\ Len(c.products) + Len(c.services) + Len(c.taxes) + Len(c.discounts)
             + Len(c.other) = Len(call_args)
        /\ c.summary.tax_total = Amounts(c.taxes)
        /\ c.summary.subtotal = Amounts(c.services) + Amounts(c.products) + Amounts(c.other)
        /\ c.summary.grand_total = c.summary.subtotal + c.summary.tax_total

\* A service line that names a tax went to the taxes bucket, a discount of a
\* positive amount to the discounts bucket, and only the first is in the totals.
C12_Witness ==
    /\ Categorize_returned
    /\ Len(call_args) = 2
    /\ call_args[1].item_type = "service" /\ TaxRule(call_args[1])
    /\ DiscountRule(call_args[1])
    /\ ~TaxRule(call_args[2]) /\ DiscountRule(call_args[2]) /\ call_args[2].amount > 0
    /\ call_ret.categorized.taxes = <<call_args[1]>>
    /\ call_ret.categorized.discounts = <<call_args[2]>>
    /\ call_ret.categorized.summary.tax_total = call_args[1].amount
    /\ call_ret.categorized.summary.subtotal = 0
    /\ call_ret.categorized.summary.grand_total = call_args[1].amount

\* An item of the returned list without its two strings.
Unformatted(item) ==
    Draft(item.item_type, item.quantity, item.description, item.unit_price,
          item.amount, item.product_code, item.original_line)

Count(x, s) == Cardinality({i \in DOMAIN s : s[i] = x})

\* The place of each bucket in the returned list.
RankOf == [products |-> 1, services |-> 2, taxes |-> 3, discounts |-> 4, other |-> 5]

\* C13: the returned list is a permutation of the input (nothing lost, nothing
\* duplicated) in the order products, services, taxes, discounts, other, the
\* source order kept inside each bucket; each item carries formatted_quantity,
\* digits only when the quantity is whole and with two decimals otherwise.
C13_FlatList ==
    Categorize_returned =>
        LET out   == call_ret.all_items
            plain == [i \in DOMAIN out |-> Unformatted(out[i])]
        IN /\ Len(out) = Len(call_args)
           /\ \A i \in DOMAIN call_args :
                Count(call_args[i], plain) = Count(call_args[i], call_args)
           /\ \A i, j \in DOMAIN out :
                i < j => RankOf[FirstRule(out[i])] <= RankOf[FirstRule(out[j])]
           /\ \A b \in DOMAIN RankOf :
                SelectSeq(plain, LAMBDA it : FirstRule(it) = b)
                    = SelectSeq(call_args, LAMBDA it : FirstRule(it) = b)
           /\ \A i \in DOMAIN out :
                LET q == out[i].quantity
                    s == out[i].formatted_quantity
                IN /\ ParseFloat(s) = Some(q)
                   /\ IF q % Scale = 0
                      THEN \A k \in DOMAIN s : s[k] \in Digit
                      ELSE /\ Len(s) >= 4
                           /\ s[Len(s) - 2] = "."
                           /\ \A k \in DOMAIN s : k # Len(s) - 2 => s[k] \in Digit

\* A tax line ahead of a product of quantity 1.5 came back behind it, with the
\* quantity strings "1.50" and "1".
C13_Witness ==
    /\ Categorize_returned
    /\ Len(call_args) = 2
    /\ FirstRule(call_args[1]) = "taxes"
    /\ FirstRule(call_args[2]) = "products" /\ call_args[2].quantity = 150
    /\ Unformatted(call_ret.all_items[1]) = call_args[2]
    /\ Unformatted(call_ret.all_items[2]) = call_args[1]
    /\ call_ret.all_items[1].formatted_quantity = <<"1", ".", "5", "0">>
    /\ call_ret.all_items[2].formatted_quantity = <<"1">>

(***************************************************************************)
(* SpecScore: one direct call of _calculate_confidence_score               *)
(***************************************************************************)
MaxDetailed == 5

\* invoice_metadata: absent, or with a number that is null, empty or filled and
\* a date that is null or filled.
ScoreMetadata ==
    {None} \cup
    { Some([invoice_number |-> n, invoice_date |-> d]) :
        n \in {None, Some(<<>>), Some(<<"A", "-", "1">>)}, d \in {None, Some(<<"2", "0", "2", "4", "-", "0", "8", "-", "1", "3">>)} }

\* vendor_details: absent, or with address and contact absent, empty or filled.
ScoreVendors ==
    {None} \cup
    { Some([name |-> v, address |-> a, contact |-> c]) :
        v \in {None, Some(<<"A", "C", "M", "E">>)},
        a \in {None, Some(NoAddress), Some([street |-> Some(<<"1", " ", "M", "a", "i", "n", " ", "S", "t">>), city |-> None]),
               Some([street |-> None, city |-> Some(<<"P", "u", "n", "e">>)])},
        c \in {None, Some(NoContact), Some([email |-> None, phone |-> Some(<<"5", "5", "5">>)])} }

\* line_items: absent, empty, with an absent item, with items that are not
\* detailed, and with 1..MaxDetailed detailed items (the bonus is capped at 4).
ScoreItemLists ==
    { None, Some(<<>>), Some(<<None>>), Some(<<Some(JsonNulls)>>), Some(<<Some(JsonEmpty)>>),
      Some(<<Some(JsonProduct), None>>) }
    \cup { Some([i \in 1..k |-> Some(JsonProduct)]) : k \in 1..MaxDetailed }

\* summary: absent, zeros, and each of grand_total, subtotal and total_tax alone.
ScoreSummaries ==
    { None,
      Some(Summary(Some(0), Some(0), Some(0), Some(0), Some(0))),
      Some(Summary(None, None, Some(0), Some(0), Some(2500))),
      Some(Summary(Some(2500), Some(0), Some(0), Some(0), Some(0))),
      Some(Summary(Some(0), Some(450), Some(0), Some(0), None)),
      Some(Summary(Some(2500), Some(450), Some(0), Some(0), Some(2950))) }

InitScore ==
    /\ UploadIdle
    /\ ScanIdle
    /\ TotalsIdle
    /\ call_pc = "_calculate_confidence_score"
    /\ call_args \in [invoice_metadata : ScoreMetadata, vendor_details : ScoreVendors,
                      line_items : ScoreItemLists, summary : ScoreSummaries]
    /\ call_ret = <<>>

call_calculate_confidence_score ==
    /\ call_pc = "_calculate_confidence_score"
    /\ call_ret' = _calculate_confidence_score(call_args)
    /\ call_pc' = "returned _calculate_confidence_score"
    /\ UNCHANGED <<doc, model_ready, fallback_enabled, pc, adapter_ret, extract_calls,
                   regex_runs, out_sd, out_tag, out_raised, ret, flash,
                   scan_text, scan_pc, scan_items, t_sd, t_prev, t_calls, call_args>>

NextScore == call_calculate_confidence_score

SpecScore == InitScore /\ [][NextScore]_vars

(***************************************************************************)
(* Properties of the confidence score                                      *)
(***************************************************************************)
Score_returned == call_pc = "returned _calculate_confidence_score"

\* What the model holds, an absent sub-object holding nothing.
NonEmpty(o) == o # None /\ o[1] # <<>>

Positive(o) == o # None /\ o[1] > 0

HasNumber(sd) ==
    sd.invoice_metadata # None /\ NonEmpty(sd.invoice_metadata[1].invoice_number)

HasDate(sd) == sd.invoice_metadata # None /\ NonEmpty(sd.invoice_metadata[1].invoice_date)

HasVendorName(sd) == sd.vendor_details # None /\ NonEmpty(sd.vendor_details[1].name)

HasStreetOrCity(sd) ==
    /\ sd.vendor_details # None
    /\ sd.vendor_details[1].address # None
    /\ \/ NonEmpty(sd.vendor_details[1].address[1].street)
       \/ NonEmpty(sd.vendor_details[1].address[1].city)

HasEmailOrPhone(sd) ==
    /\ sd.vendor_details # None
    /\ sd.vendor_details[1].contact # None
    /\ \/ NonEmpty(sd.vendor_details[1].contact[1].email)
       \/ NonEmpty(sd.vendor_details[1].contact[1].phone)

HasItems(sd) == sd.line_items # None /\ Len(sd.line_items[1]) >= 1

DetailedItems(sd) ==
    IF sd.line_items = None THEN 0
    ELSE Cardinality({i \in DOMAIN sd.line_items[1] :
                        /\ sd.line_items[1][i] # None
                        /\ NonEmpty(sd.line_items[1][i][1].description)
                        /\ Positive(sd.line_items[1][i][1].quantity)})

HasGrandTotal(sd) == sd.summary # None /\ Positive(sd.summary[1].grand_total)

HasSubtotalOrTax(sd) ==
    sd.summary # None /\ (Positive(sd.summary[1].subtotal) \/ Positive(sd.summary[1].total_tax))

Weight(has, w) == IF has THEN w ELSE 0

\* raw, in hundredths of a point.
RawScore(sd) ==
    Weight(HasNumber(sd), 100) + Weight(HasDate(sd), 100) + Weight(HasVendorName(sd), 150)
    + Weight(HasStreetOrCity(sd), 100) + Weight(HasEmailOrPhone(sd), 50)
    + Weight(HasItems(sd), 100)
    + Weight(HasItems(sd), Min(200, 50 * DetailedItems(sd)))
    + Weight(HasGrandTotal(sd), 100) + Weight(HasSubtotalOrTax(sd), 100)

WithNumber(sd, n) ==
    [sd EXCEPT !.invoice_metadata = Some([@[1] EXCEPT !.invoice_number = Some(n)])]

NumberIsNull(sd) ==
    sd.invoice_metadata # None /\ sd.invoice_metadata[1].invoice_number = None

\* C15: the score never falls when a null invoice_number is filled in: a model
\* that differs from the scored one only by a non-empty invoice_number scores at
\* least as much.
C15_Monotonic ==
    (Score_returned /\ NumberIsNull(call_args)) =>
        \A n \in {<<"A", "-", "1">>, <<"7">>} :
            _calculate_confidence_score(WithNumber(call_args, n)) >= call_ret

\* A model that scored 0.9 without an invoice number scores 1.0 with one.
C15_Witness ==
    /\ Score_returned
    /\ NumberIsNull(call_args)
    /\ call_ret = 90
    /\ _calculate_confidence_score(WithNumber(call_args, <<"A", "-", "1">>)) = 100

(***************************************************************************)
(* SpecField: direct calls of extract_field on one text                    *)
(***************************************************************************)
MaxFieldCalls == 2

\* The texts given to extract_field: the invoice of scenario 1; single labels;
\* texts that two patterns of one field match; mail addresses; header lines the
\* vendor scan accepts or passes over; a name on the tenth and on the eleventh
\* line; a line whose cleaned form is too short ahead of a name; no text.
FieldTexts ==
    { <<<<"I", "n", "v", "o", "i", "c", "e", " ", "#", "I", "N", "V", "-", "2", "0", "2", "4", "-", "0", "0", "1">>, <<"D", "a", "t", "e", ":", " ", "2", "0", "2", "4", "-", "0", "8", "-", "1", "3">>, <<"A", "C", "M", "E", " ", "C", "o", "r", "p", " ", "I", "n", "c", ".">>, <<"W", "e", "b", " ", "D", "e", "v", "e", "l", "o", "p", "m", "e", "n", "t", " ", "S", "e", "r", "v", "i", "c", "e", "s", " ", "1", " ", "2", "5", "0", "0", ".", "0", "0">>, <<"T", "o", "t", "a", "l", ":", " ", "2", "5", "0", "0", ".", "0", "0">>>>,
      <<<<"I", "n", "v", "o", "i", "c", "e", " ", "#", "A", "-", "1">>>>,
      <<<<"T", "o", "t", "a", "l", ":", " ", "9", "9", ".", "0", "0">>>>,
      <<<<"D", "a", "t", "e", ":", " ", "1", "3", "/", "0", "8", "/", "2", "0", "2", "4">>>>,
      <<<<"I", "n", "v", "o", "i", "c", "e", " ", "D", "a", "t", "e", ":", " ", "1", ".", "2", ".", "2", "4">>>>,
      <<<<"d", "u", "e", " ", "1", "3", "/", "0", "8", "/", "2", "0", "2", "4", " ", "o", "r", " ", "2", "0", "2", "4", "-", "0", "8", "-", "1", "3">>>>,
      <<<<"B", "i", "l", "l", " ", "n", "o", ":", " ", "7", "/", "B">>, <<"R", "e", "c", "e", "i", "p", "t", " ", "#", "R", "-", "9">>>>,
      <<<<"A", "m", "o", "u", "n", "t", " ", "d", "u", "e", " ", "5">>, <<"T", "o", "t", "a", "l", " ", "6">>>>,
      <<<<"#", "Z", "9", " ", "i", "n", "v", ":", " ", "Q", "1">>>>,
      <<<<"M", "a", "i", "l", " ", "b", "o", "b", "@", "e", "x", ".", "c", "o", "m", " ", "n", "o", "w">>>>,
      <<<<"x", "@", "y">>>>,
      <<<<"H", "e", "l", "l", "o", " ", " ", "t", "h", "e", "r", "e", " ", "4", "2">>>>,
      <<<<"a", "c", "m", "e", " ", "c", "o", "m", "p", "a", "n", "y">>>>,
      <<<<"h", "e", "l", "l", "o", " ", "w", "o", "r", "l", "d">>>>,
      <<<<" ", " ", "Z", "e", "d", " ", "T", "r", "a", "d", "e", "r", "s", "!", " ", " ">>>>,
      <<<<"C", "o", ".">>>>,
      <<<<"1", "2", "3", "4", "5", "6", "7", "8">>>>,
      <<<<"I", "n", "v", "o", "i", "c", "e", " ", "7">>, <<"P", "a", "g", "e", " ", "1">>, <<"A", "C", "M", "E", " ", "C", "o", "r", "p", " ", "I", "n", "c", ".">>>>,
      <<<<"f", "r", "o", "m", ":", " ", "B", "e", "t", "a", " ", "W", "o", "r", "k", "s">>>>,
      <<<<"s", "m", "a", "l", "l">>, <<"f", "r", "o", "m", " ", "a", "c", "m", "e">>>>,
      <<<<"T", "a", "x">>, <<"T", "a", "x">>, <<"T", "a", "x">>, <<"T", "a", "x">>, <<"T", "a", "x">>, <<"T", "a", "x">>, <<"T", "a", "x">>, <<"T", "a", "x">>, <<"T", "a", "x">>, <<"A", "C", "M", "E", " ", "C", "o", "r", "p", " ", "I", "n", "c", ".">>>>,
      <<<<"T", "a", "x">>, <<"T", "a", "x">>, <<"T", "a", "x">>, <<"T", "a", "x">>, <<"T", "a", "x">>, <<"T", "a", "x">>, <<"T", "a", "x">>, <<"T", "a", "x">>, <<"T", "a", "x">>, <<"T", "a", "x">>, <<"A", "C", "M", "E", " ", "C", "o", "r", "p", " ", "I", "n", "c", ".">>>>,
      <<<<"T", "a", "x">>, <<"T", "a", "x">>, <<"T", "a", "x">>, <<"T", "a", "x">>, <<"T", "a", "x">>, <<"T", "a", "x">>, <<"T", "a", "x">>, <<"T", "a", "x">>, <<"T", "a", "x">>, <<"T", "a", "x">>, <<"9", "9", " ", "Z", "e", "d", "!">>>>,
      <<<<"C", "o", ".">>, <<"A", "C", "M", "E", " ", "C", "o", "r", "p", " ", "I", "n", "c", ".">>>>,
      <<>> }

\* The field names asked for: fields of the pattern table, "vendor", and a name
\* the table does not have.
FieldNames == {"invoice_number", "date", "total", "vendor_email", "vendor", "po_number"}

InitField ==
    /\ UploadIdle
    /\ ScanIdle
    /\ TotalsIdle
    /\ call_pc = "extract_field"
    /\ call_args \in [text : FieldTexts, field_type : FieldNames]
    /\ call_ret = <<>>

\* One more call on the same text and field; call_ret lists what the calls gave.
call_extract_field ==
    /\ call_pc = "extract_field"
    /\ Len(call_ret) < MaxFieldCalls
    /\ call_ret' = Append(call_ret, extract_field(call_args.text, call_args.field_type))
    /\ UNCHANGED <<doc, model_ready, fallback_enabled, pc, adapter_ret, extract_calls,
                   regex_runs, out_sd, out_tag, out_raised, ret, flash,
                   scan_text, scan_pc, scan_items, t_sd, t_prev, t_calls, call_pc, call_args>>

NextField == call_extract_field

SpecField == InitField /\ [][NextField]_vars

(***************************************************************************)
(* Properties of the field extractor and the vendor resolver               *)
(***************************************************************************)
\* The patterns of a list that match s somewhere, and what the lowest-numbered of
\* them captures.
MatchingPatterns(patterns, s) ==
    {k \in DOMAIN patterns : Search(patterns[k].parts, s) # <<>>}

CascadeValue(patterns, s) ==
    LET K == MatchingPatterns(patterns, s) IN
    IF K = {} THEN None
    ELSE Some(Strip(Group(Search(patterns[Lowest(K)].parts, s), s, patterns[Lowest(K)].group)))

TableFields == {"invoice_number", "date", "total", "vendor_email"}

Qualifies(line) ==
    /\ line # <<>>
    /\ Len(line) >= 3
    /\ \A k \in DOMAIN SkipWords : ~Contains(line, SkipWords[k])
    /\ \/ \E k \in DOMAIN CompanyIndicators : Contains(line, CompanyIndicators[k])
       \/ (Len(line) > 5 /\ line[1] \in Upper /\ \E k \in DOMAIN line : line[k] \notin Digit)
    /\ Len(CleanedName(line)) > 3

\* The places, among the first ten, of the lines the scan takes.
HeaderCandidates(text) == {k \in DOMAIN text : k <= 10 /\ Qualifies(Strip(text[k]))}

\* C18: the vendor is the cleaned text of the first of the first ten lines that
\* is not blank, has 3 characters or more, no boilerplate word, and a company
\* keyword or more than 5 characters with an upper-case start and a character
\* that is no digit, and whose cleaned form has more than 3 characters; when
\* there is no such line it is what the pattern cascade gives on the text as it
\* is, null when no pattern matches; a line after the tenth is not returned by
\* the scan.
C18_VendorTwoStage ==
    (call_pc = "extract_field" /\ call_args.field_type = "vendor") =>
        \A i \in DOMAIN call_ret :
            IF HeaderCandidates(call_args.text) # {}
            THEN call_ret[i] =
                   Some(CleanedName(Strip(call_args.text[Lowest(HeaderCandidates(call_args.text))])))
            ELSE call_ret[i] = CascadeValue(VendorPatterns, JoinLines(call_args.text))

\* Ten boilerplate lines ahead of "ACME Corp Inc.": the scan takes none of the
\* first ten, the eleventh qualifies but is out of its reach, and the result is
\* the capture of the first vendor pattern, which is not the eleventh line.
C18_Witness ==
    /\ call_pc = "extract_field"
    /\ call_args.field_type = "vendor"
    /\ Len(call_args.text) = 11
    /\ Qualifies(call_args.text[11])
    /\ HeaderCandidates(call_args.text) = {}
    /\ Len(call_ret) >= 1
    /\ call_ret[1] # None
    /\ call_ret[1] # Some(CleanedName(call_args.text[11]))
    /\ 1 \in MatchingPatterns(VendorPatterns, JoinLines(call_args.text))

(***************************************************************************)
(* C17: scenario 1 on the pattern-based path                               *)
(***************************************************************************)
\* The upload of scenario 1's text is done, with no model ready and the
\* fallback enabled.
Scenario1_done ==
    /\ pc = "done"
    /\ doc = Scenario1
    /\ ~model_ready
    /\ fallback_enabled

\* What scenario 1 says of the model besides its number: a vendor containing
\* "ACME Corp Inc.", one product line item of amount 2500.0, grand_total 2500.0.
Scenario1_rest ==
    /\ out_sd # None
    /\ out_sd[1].vendor_details.name # None
    /\ Contains(out_sd[1].vendor_details.name[1], <<"A", "C", "M", "E", " ", "C", "o", "r", "p", " ", "I", "n", "c", ".">>)
    /\ Len(out_sd[1].line_items) = 1
    /\ out_sd[1].line_items[1].category = "product"
    /\ out_sd[1].line_items[1].total = Some(250000)
    /\ out_sd[1].summary.grand_total = Some(250000)

\* C17: with no model ready and the fallback enabled, the text of scenario 1
\* yields a model whose invoice_number is "INV-2024-001" as written in the
\* text, with a vendor containing "ACME Corp Inc.", one product line item of
\* amount 2500.0 and grand_total 2500.0.
C17_Scenario1 ==
    Scenario1_done =>
        /\ Scenario1_rest
        /\ out_sd[1].invoice_metadata.invoice_number = Some(<<"I", "N", "V", "-", "2", "0", "2", "4", "-", "0", "0", "1">>)

\* The model the upload of scenario 1 yields: everything the scenario says of
\* it but the number, which is the capture from the lower-cased text.
C17_Returned ==
    /\ Scenario1_done
    /\ Scenario1_rest
    /\ out_tag = "regex_fallback"
    /\ out_sd[1].invoice_metadata.invoice_number = Some(<<"i", "n", "v", "-", "2", "0", "2", "4", "-", "0", "0", "1">>)
    /\ out_sd[1].invoice_metadata.invoice_date = Some(<<"2", "0", "2", "4", "-", "0", "8", "-", "1", "3">>)

(***************************************************************************)
(* C19: validation issues and extraction_metadata.errors                   *)
(***************************************************************************)
\* The orchestrator returned a model.
ModelReturned == pc = "done" /\ out_sd # None

\* On the smart path the errors of a returned model are the issues validate()
\* finds in it, in validate()'s order, and a model with issues is returned.
SmartIssuesRecorded ==
    (ModelReturned /\ out_tag = "gemini_ai") =>
        out_sd[1].extraction_metadata.errors = validate(out_sd[1])

\* C19: the errors of every model the orchestrator returns, on the smart path
\* or on the pattern-based path, are the validation issues of that model (a
\* date that is not YYYY-MM-DD, an invalid e-mail address, the issues of line
\* item k labelled with k counted from 1).
C19_IssuesRecorded ==
    ModelReturned => out_sd[1].extraction_metadata.errors = validate(out_sd[1])

\* A model of the pattern-based path whose invoice_date is the date as written
\* in the text, which is no ISO date, and whose errors are empty.
C19_Unrecorded ==
    /\ ModelReturned
    /\ out_tag = "regex_fallback"
    /\ out_sd[1].invoice_metadata.invoice_date = Some(<<"9", "9", "/", "9", "9", "/", "2", "0", "2", "4">>)
    /\ validate(out_sd[1]) = <<Issue(0, "Invoice date must be in YYYY-MM-DD format")>>
    /\ out_sd[1].extraction_metadata.errors = <<>>

\* A model of the smart path that is returned with its issues recorded: both
\* dates, and an item counted from 1.
SmartIssuesReturned ==
    /\ ModelReturned
    /\ out_tag = "gemini_ai"
    /\ \E e1, e2 \in DOMAIN out_sd[1].extraction_metadata.errors :
          /\ out_sd[1].extraction_metadata.errors[e1] =
               Issue(2, "Quantity cannot be negative")
          /\ out_sd[1].extraction_metadata.errors[e2] =
               Issue(0, "Invalid customer email format")

(***************************************************************************)
(* C20: the legacy view                                                    *)
(***************************************************************************)
\* process_invoice returned the legacy view of the model the orchestrator gave.
ViewReturned == pc = "done" /\ out_sd # None /\ ret.kind = "record"

\* C20: the legacy view process_invoice returns for a model carries the
\* model's invoice_number, invoice_date (as date) and vendor name (as vendor),
\* its method (as extraction_method) and extracted_at (as processed_at), one map
\* per line item in the model's order with amount the item's total and
\* item_type its category, and as total the string form of grand_total, null
\* when grand_total is 0; the view is made of the model as the orchestrator
\* returned it, which stays as it was.
C20_LegacyView ==
    ViewReturned =>
        /\ ret.data.invoice_number = out_sd[1].invoice_metadata.invoice_number
        /\ ret.data.date = out_sd[1].invoice_metadata.invoice_date
        /\ ret.data.vendor = out_sd[1].vendor_details.name
        /\ ret.data.extraction_method = out_sd[1].extraction_metadata.method
        /\ ret.data.processed_at = out_sd[1].extraction_metadata.extracted_at
        /\ Len(ret.data.line_items) = Len(out_sd[1].line_items)
        /\ \A i \in DOMAIN out_sd[1].line_items :
              /\ ret.data.line_items[i].amount = out_sd[1].line_items[i].total
              /\ ret.data.line_items[i].item_type = out_sd[1].line_items[i].category
              /\ ret.data.line_items[i].description = out_sd[1].line_items[i].description
        /\ IF out_sd[1].summary.grand_total = Some(0) THEN ret.data.total = None
           ELSE ret.data.total = Some(FloatStr(out_sd[1].summary.grand_total[1]))
        /\ ret.raw_text = doc

\* The view of a smart-path model of two items, the first with a tax amount, so
\* that its amount is the total and not the subtotal, and a grand total that is
\* not zero and comes out as a string.
C20_Witness ==
    /\ ViewReturned
    /\ out_tag = "gemini_ai"
    /\ Len(ret.data.line_items) = 2
    /\ ret.data.line_items[1].amount = Some(1100)
    /\ out_sd[1].line_items[1].subtotal = Some(1000)
    /\ ret.data.line_items[2].item_type = "tax"
    /\ ret.data.total = Some(<<"2", "9", ".", "0">>)
    /\ ret.data.vendor = Some(<<"A", "C", "M", "E">>)

(***************************************************************************)
(* C23: the categories of a returned model's line items                    *)
(***************************************************************************)
\* The categories of the glossary.
Categories == {"product", "service", "tax", "discount", "other"}

\* The pattern-based path gives every line item one of the five categories.
PatternCategories ==
    (ModelReturned /\ out_tag = "regex_fallback") =>
        \A i \in DOMAIN out_sd[1].line_items : out_sd[1].line_items[i].category \in Categories

\* C23: in every model the orchestrator returns, on the smart path or on the
\* pattern-based path, each line item's category is one of product, service,
\* tax, discount, other.
C23_CategoryInSet ==
    ModelReturned =>
        \A i \in DOMAIN out_sd[1].line_items : out_sd[1].line_items[i].category \in Categories

\* A smart-path model that is accepted and returned with a line item in the
\* category "shipping", as the response gave it.
C23_Shipping ==
    /\ ModelReturned
    /\ out_tag = "gemini_ai"
    /\ Len(out_sd[1].line_items) = 2
    /\ out_sd[1].line_items[2].category = "shipping"
    /\ out_sd[1].line_items[2].total = Some(2500)
    /\ out_sd[1].extraction_metadata.errors = <<>>

(***************************************************************************)
(* C24: tax lines                                                          *)
(***************************************************************************)
\* A line of text that contains a tax keyword, at its start or further on, and
\* ends in an amount.
TaxLine(line) ==
    Search(<<Bol, Cls(AnyCh, 0, Unbounded, FALSE), Lit(TaxKeywords),
             Cls(AnyCh, 0, Unbounded, FALSE), WS, CUR, AMT, Eol>>, line) # <<>>

\* The tax lines of the scanned text that are not skipped and match none of the
\* line shapes 1 to 3.
TaxLinesScanned ==
    {i \in DOMAIN scan_text :
        /\ Len(scan_text[i]) >= MinLineLength
        /\ ~Skipped(scan_text[i])
        /\ TaxLine(scan_text[i])
        /\ Matching(scan_text[i]) \cap {1, 2, 3} = {}}

\* C24: every line that is not skipped, contains a tax keyword followed by an
\* amount and matches none of the line shapes 1 to 3 is parsed into an item of
\* category "tax" and quantity 1, wherever the keyword sits, the start of the
\* line included.
C24_TaxLineParsed ==
    scan_pc = "scanned" =>
        \A i \in TaxLinesScanned :
            /\ ItemsOf(scan_text[i]) # <<>>
            /\ \A j \in DOMAIN ItemsOf(scan_text[i]) :
                  /\ ItemsOf(scan_text[i])[j].item_type = "tax"
                  /\ ItemsOf(scan_text[i])[j].quantity = Scale

\* "VAT 18.00" is a tax line that only the last line shape matches: its item
\* is of category "other"; "CGST 18.00" beside it is a tax item.
C24_KeywordAtStart ==
    /\ scan_pc = "scanned"
    /\ scan_text = <<<<"V", "A", "T", " ", "1", "8", ".", "0", "0">>, <<"C", "G", "S", "T", " ", "1", "8", ".", "0", "0">>>>
    /\ TaxLinesScanned = {1, 2}
    /\ Matching(scan_text[1]) = {6}
    /\ Len(scan_items) = 2
    /\ \E j \in 1..2 : /\ scan_items[j].original_line = <<"V", "A", "T", " ", "1", "8", ".", "0", "0">>
                       /\ scan_items[j].item_type = "other"
                       /\ scan_items[j].amount = 1800
    /\ \E j \in 1..2 : /\ scan_items[j].original_line = <<"C", "G", "S", "T", " ", "1", "8", ".", "0", "0">>
                       /\ scan_items[j].item_type = "tax"

(***************************************************************************)
(* C27, C28: the summary of a model of the pattern-based path              *)
(***************************************************************************)
\* The orchestrator returned a model of the pattern-based path.
PatternModelReturned == ModelReturned /\ out_tag = "regex_fallback"

\* The line items of category c in the returned model, and the sum of their
\* amounts (LineItem.total is set from the extracted amount).
ItemsIn(c) == SelectSeq(out_sd[1].line_items, LAMBDA item : item.category = c)

AmountsIn(c) == SumSeq([i \in DOMAIN ItemsIn(c) |-> ItemsIn(c)[i].total[1]])

\* C27: on the pattern-based path the returned model's total_tax is the sum of
\* the amounts of its tax line items, and that sum is part of its grand_total.
C27_TaxTotal ==
    PatternModelReturned =>
        /\ out_sd[1].summary.total_tax = Some(AmountsIn("tax"))
        /\ out_sd[1].summary.grand_total =
             Some(out_sd[1].summary.subtotal[1] + AmountsIn("tax"))

\* The model of "2 Widget 10.00" and "CGST 18.00": a tax item of 18.0, a
\* total_tax of 0.0 and a grand_total of 10.0.
C27_TaxDropped ==
    /\ PatternModelReturned
    /\ doc = <<<<"2", " ", "W", "i", "d", "g", "e", "t", " ", "1", "0", ".", "0", "0">>, <<"C", "G", "S", "T", " ", "1", "8", ".", "0", "0">>>>
    /\ Len(out_sd[1].line_items) = 2
    /\ AmountsIn("tax") = 1800
    /\ out_sd[1].summary.total_tax = Some(0)
    /\ out_sd[1].summary.subtotal = Some(1000)
    /\ out_sd[1].summary.grand_total = Some(1000)


\* A line item the categorizer places in the discounts bucket: no tax rule
\* applies to it and its description contains "discount".
IsDiscountLine(item) ==
    /\ item.category # "tax"
    /\ ~HasWord(item.description[1], TaxWords)
    /\ Contains(Lowered(item.description[1]), DiscountWord)

\* The sum of the subtotals of the items that are neither tax items nor
\* discount lines.
SubtotalWithoutDiscounts ==
    SumSeq([i \in DOMAIN out_sd[1].line_items |->
              IF out_sd[1].line_items[i].category = "tax"
                 \/ IsDiscountLine(out_sd[1].line_items[i])
              THEN 0 ELSE out_sd[1].line_items[i].subtotal[1]])

\* C28: on the pattern-based path a line item that the categorizer places in
\* the discounts bucket is no part of the returned model's subtotal, and so
\* does not add to its grand_total.
C28_DiscountExcluded ==
    PatternModelReturned =>
        /\ out_sd[1].summary.subtotal = Some(SubtotalWithoutDiscounts)
        /\ out_sd[1].summary.grand_total[1] <= SubtotalWithoutDiscounts + AmountsIn("tax")

\* The model of "2 Widget 10.00" and "Less discount 5.00": the discount line is
\* an item of 5.0, and subtotal and grand_total are 15.0.
C28_DiscountAdded ==
    /\ PatternModelReturned
    /\ doc = DiscountText
    /\ Len(out_sd[1].line_items) = 2
    /\ \E i \in 1..2 : /\ IsDiscountLine(out_sd[1].line_items[i])
                       /\ out_sd[1].line_items[i].total = Some(500)
    /\ SubtotalWithoutDiscounts = 1000
    /\ out_sd[1].summary.subtotal = Some(1500)
    /\ out_sd[1].summary.grand_total = Some(1500)

(***************************************************************************)
(* C29: process_invoice on an accepted smart-path model                    *)
(***************************************************************************)
\* C29: for every model the orchestrator accepts from the smart path, one with
\* a line item of null quantity or null total included, process_invoice
\* returns the legacy record of the model with the text attached; the outcome
\* of process_invoice is always a record or null, never an exception.
C29_NeverRaises ==
    Done =>
        /\ ret.kind \in {"record", "none"}
        /\ (out_sd # None /\ out_tag = "gemini_ai") =>
              /\ ret.kind = "record"
              /\ ret.raw_text = doc
              /\ ret.data.extraction_method = "gemini_ai"

\* A smart-path model with a line item of null quantity and null total passed
\* validation, scoring and the gate, and process_invoice raised: the upload
\* ends in its except clause.
C29_Raised ==
    /\ Done
    /\ out_tag = "gemini_ai"
    /\ out_sd # None
    /\ Accepted(adapter_ret)
    /\ \E i \in DOMAIN out_sd[1].line_items :
          /\ out_sd[1].line_items[i].quantity = None
          /\ out_sd[1].line_items[i].total = None
    /\ ret = RetRaised
    /\ flash = "processing_failed"

(***************************************************************************)
(* C22: extraction_metadata is written by the attempt that made the model  *)
(***************************************************************************)
\* The metadata _parse_response writes for a model d: method, model name, the
\* score of d, the clock at that moment and the issues validate() finds in d.
SmartMetadata(d) ==
    [method |-> "gemini_ai", model |-> Some(GeminiModel),
     confidence_score |-> Some(_calculate_confidence_score(AllPresent(d))),
     fallback_used |-> FALSE, extracted_at |-> ClockNow, errors |-> validate(d)]

\* The metadata of a model of the pattern-based path.
FallbackMetadata ==
    [method |-> "regex_fallback", model |-> None, confidence_score |-> Some(RegexConfidence),
     fallback_used |-> TRUE, extracted_at |-> ClockNow, errors |-> <<>>]

\* C22: the extraction_metadata of a model is what the attempt that produced it
\* wrote: a model the adapter gives carries the metadata written after scoring,
\* whatever extraction_metadata or confidence_score its response supplied, and
\* it is that score the gate tests; a model of the pattern-based path, made
\* after a discarded smart attempt or without one, has method regex_fallback,
\* no model name and no errors.
C22_MetadataPerAttempt ==
    Done =>
        /\ GaveModel =>
              /\ adapter_ret.sd[1].extraction_metadata = SmartMetadata(adapter_ret.sd[1])
              /\ (out_tag = "gemini_ai") <=>
                    (_calculate_confidence_score(AllPresent(adapter_ret.sd[1]))
                       > ConfidenceThreshold)
        /\ (out_sd # None /\ out_tag = "gemini_ai") =>
              out_sd[1].extraction_metadata = SmartMetadata(out_sd[1])
        /\ (out_sd # None /\ out_tag = "regex_fallback") =>
              out_sd[1].extraction_metadata = FallbackMetadata

\* The response that says of itself "confidence 0.99, error stale" and of the
\* invoice only a due date "later": the adapter's model scores 0.0 and is
\* discarded, with the issue of that due date as its only error, and the
\* fallback model carries the metadata of its own attempt.
C22_Witness ==
    /\ Done
    /\ GaveModel
    /\ adapter_ret.sd[1].extraction_metadata.confidence_score = Some(0)
    /\ adapter_ret.sd[1].extraction_metadata.extracted_at = ClockNow
    /\ adapter_ret.sd[1].extraction_metadata.errors =
          <<Issue(0, "Due date must be in YYYY-MM-DD format")>>
    /\ adapter_ret.sd[1].invoice_metadata.due_date = Some(<<"l", "a", "t", "e", "r">>)
    /\ adapter_ret.sd[1].invoice_metadata.invoice_number = None
    /\ adapter_ret.sd[1].line_items = <<>>
    /\ out_tag = "regex_fallback"
    /\ out_sd # None
    /\ out_sd[1].extraction_metadata = FallbackMetadata
    /\ doc = Scenario1

(***************************************************************************)
(* GeminiAIExtractor.extract step by step, with the retry loop             *)
(***************************************************************************)
\* The largest GEMINI_MAX_RETRIES tried (config.py reads any integer).
MaxRetries == 3

RECURSIVE Pow2(_)
Pow2(n) == IF n = 0 THEN 1 ELSE 2 * Pow2(n - 1)

NoAnswer == [kind |-> "no_response", data |-> <<>>]

\* The texts a request can bring: not JSON, JSON of an unexpected shape, white
\* space only, or a JSON document.
TextAnswers ==
    { [kind |-> k, data |-> <<>>] : k \in {"bad_json", "bad_shape", "blank"} }
    \cup { [kind |-> "json", data |-> data] : data \in JsonShipped }

\* What one generate_content request does inside the loop's try block: it (or
\* reading response.text) raises, the text is empty, or there is a text.
Generated ==
    { [kind |-> k, resp |-> NoAnswer] : k \in {"raise", "empty"} }
    \cup { [kind |-> "text", resp |-> resp] : resp \in TextAnswers }

\* A loop that sleeps after every attempt that raised, the last one too.
Backoff_every_raise(attempt, max_retries) == <<Pow2(attempt)>>

\* The sleeps of the except clause of _generate_with_retry after the attempt
\* numbered attempt has raised: time.sleep(2 ** attempt) unless it is the last.
Backoff(attempt, max_retries) ==
    IF attempt < max_retries - 1 THEN <<Pow2(attempt)>> ELSE <<>>

\* A loop that goes on to the next attempt after a text.
LoopLeft_never(g) == FALSE

\* The loop is left from inside: "if response.text: return response.text.strip()".
LoopLeft(g) == g.kind = "text"

\* The state of a call of extract: attempt is the loop variable, log the
\* outcomes of the requests made, slept the seconds of each time.sleep,
\* response what _generate_with_retry returned, result what extract returned.
AdapterCall(attempt, log, slept, response, result) ==
    [attempt |-> attempt, log |-> log, slept |-> slept, response |-> response,
     result |-> result]

InitAdapter ==
    /\ UploadIdle
    /\ ScanIdle
    /\ TotalsIdle
    /\ call_pc = "extract"
    /\ call_args \in [model : BOOLEAN, max_retries : 0..MaxRetries]
    /\ call_ret = AdapterCall(0, <<>>, <<>>, None, NotCalled)

AdapterRest ==
    UNCHANGED <<doc, model_ready, fallback_enabled, pc, adapter_ret, extract_calls,
                regex_runs, out_sd, out_tag, out_raised, ret, flash,
                scan_text, scan_pc, scan_items, t_sd, t_prev, t_calls, call_args>>

\* extract, lines 168-170: without an initialized model the call ends before
\* the try block.
extract_enter ==
    /\ call_pc = "extract"
    /\ IF call_args.model
       THEN /\ call_pc' = "_create_extraction_prompt"
            /\ UNCHANGED call_ret
       ELSE /\ call_pc' = "returned extract"
            /\ call_ret' = [call_ret EXCEPT !.result = Returned(None, "model_unavailable")]
    /\ AdapterRest

\* extract, line 176: the prompt is built and _generate_with_retry is entered.
create_extraction_prompt ==
    /\ call_pc = "_create_extraction_prompt"
    /\ call_pc' = "_generate_with_retry"
    /\ UNCHANGED call_ret
    /\ AdapterRest

\* One iteration of "for attempt in range(self.config.max_retries)".
generate_content ==
    /\ call_pc = "_generate_with_retry"
    /\ call_ret.attempt < call_args.max_retries
    /\ \E g \in Generated :
          IF LoopLeft(g)
          THEN /\ call_ret' = [call_ret EXCEPT !.log = Append(@, g.kind),
                                               !.response = Some(g.resp)]
               /\ call_pc' = "generated"
          ELSE /\ call_ret' = [call_ret EXCEPT
                                 !.log = Append(@, g.kind),
                                 !.slept = IF g.kind = "raise"
                                           THEN @ \o Backoff(call_ret.attempt,
                                                             call_args.max_retries)
                                           ELSE @,
                                 !.attempt = @ + 1]
               /\ call_pc' = "_generate_with_retry"
    /\ AdapterRest

\* The range is used up: "return None".
retries_exhausted ==
    /\ call_pc = "_generate_with_retry"
    /\ call_ret.attempt >= call_args.max_retries
    /\ call_ret' = [call_ret EXCEPT !.response = None]
    /\ call_pc' = "generated"
    /\ AdapterRest

\* extract, lines 181-193: no response, or the response parsed.
extract_respond ==
    /\ call_pc = "generated"
    /\ call_ret' = [call_ret EXCEPT !.result =
                        extract(IF call_ret.response = None THEN NoAnswer
                                ELSE call_ret.response[1])]
    /\ call_pc' = "returned extract"
    /\ AdapterRest

\* extract, lines 195-197: an exception of a statement of the try block that
\* no helper handles (building the prompt, or after the response is back).
extract_except ==
    /\ call_pc \in {"_create_extraction_prompt", "generated"}
    /\ call_ret' = [call_ret EXCEPT !.result = extract([kind |-> "raise", data |-> <<>>])]
    /\ call_pc' = "returned extract"
    /\ AdapterRest

NextAdapter ==
    \/ extract_enter
    \/ create_extraction_prompt
    \/ generate_content
    \/ retries_exhausted
    \/ extract_respond
    \/ extract_except

SpecAdapter == InitAdapter /\ [][NextAdapter]_vars

\* One thread runs the loop: an iteration that can be taken is taken (a
\* request comes back or raises), and so is the return after the last one.
SpecAdapterFair ==
    SpecAdapter /\ WF_vars(generate_content) /\ WF_vars(retries_exhausted)

(***************************************************************************)
(* C25, C26: the adapter's tags and its retry loop                         *)
(***************************************************************************)
AdapterTags ==
    {"gemini_ai", "model_unavailable", "no_response", "parse_error", "extraction_error"}

ExtractReturned == call_pc = "returned extract"

\* What _generate_with_retry gave extract is nothing: None, or "".
NothingGenerated ==
    call_ret.response = None \/ call_ret.response[1].kind = "blank"

\* C25: extract always returns (it lets no exception out), with a model if
\* and only if the tag is "gemini_ai"; without an initialized model it
\* returns (null, "model_unavailable") and no request was made; a generation
\* that is exhausted or empty gives (null, "no_response"), a response that is
\* not JSON or not of the expected shape (null, "parse_error"), and an
\* exception elsewhere in the try block (null, "extraction_error").
C25_TagDeterminesResult ==
    ExtractReturned =>
        /\ call_ret.result.called
        /\ ~call_ret.result.raised
        /\ call_ret.result.tag \in AdapterTags
        /\ (call_ret.result.sd # None) <=> (call_ret.result.tag = "gemini_ai")
        /\ ~call_args.model <=> (call_ret.result.tag = "model_unavailable")
        /\ ~call_args.model => call_ret.log = <<>>
        /\ call_ret.result.tag = "no_response" => NothingGenerated
        /\ (call_args.model /\ NothingGenerated) =>
               call_ret.result.tag \in {"no_response", "extraction_error"}
        /\ call_ret.result.tag = "parse_error" =>
               /\ ~NothingGenerated
               /\ call_ret.response[1].kind \in {"bad_json", "bad_shape"}
        /\ (~NothingGenerated /\ call_ret.response[1].kind \in {"bad_json", "bad_shape"}) =>
               call_ret.result.tag \in {"parse_error", "extraction_error"}
        /\ call_ret.result.tag = "gemini_ai" =>
               /\ ~NothingGenerated
               /\ call_ret.response[1].kind = "json"

\* The second request brought a text that is not JSON: extract returned
\* (null, "parse_error") after one retry.
C25_Witness ==
    /\ ExtractReturned
    /\ call_ret.log = <<"raise", "text">>
    /\ call_ret.response = Some([kind |-> "bad_json", data |-> <<>>])
    /\ call_ret.result = Returned(None, "parse_error")

\* The sleeps the claim allows for the requests from the k-th on: 2^attempt
\* seconds after an attempt that raised and is not the last one.
RECURSIVE SleepsAfter(_, _, _)
SleepsAfter(log, k, max_retries) ==
    IF k > Len(log) THEN <<>>
    ELSE (IF log[k] = "raise" /\ k < max_retries THEN <<Pow2(k - 1)>> ELSE <<>>)
         \o SleepsAfter(log, k + 1, max_retries)

\* The requests made never exceed max_retries, none follows a text, the
\* sleeps are the allowed ones, and what the loop returned is the text of the
\* last request, or None after max_retries requests without one.
C26_RetryLaw ==
    /\ Len(call_ret.log) <= call_args.max_retries
    /\ \A i \in 1..(Len(call_ret.log) - 1) : call_ret.log[i] # "text"
    /\ call_ret.slept = SleepsAfter(call_ret.log, 1, call_args.max_retries)
    /\ call_pc = "generated" =>
          IF call_ret.log # <<>> /\ call_ret.log[Len(call_ret.log)] = "text"
          THEN call_ret.response # None
          ELSE /\ call_ret.response = None
               /\ Len(call_ret.log) = call_args.max_retries

Calls == {1, 2}

PairTexts == {Scenario1, DiscountText}

\* What the service answers a call of the pair.
PairAnswers ==
    { [kind |-> k, data |-> <<>>] : k \in {"raise", "bad_json"} }
    \cup { [kind |-> "json", data |-> data] : data \in JsonShipped \cup JsonSelfDescribed }

\* What the two calls share: the attributes of the instance and the
\* configuration, set by __init__ and at import.
Instance(ready, fallback) ==
    [patterns |-> "patterns", gemini_extractor |-> ready, fallback_enabled |-> fallback]

\* A variable kept on the instance, where both calls find it.
Frame_on_instance(c) == 1

\* Where call c keeps "structured_data, method": names of the function body,
\* in the frame of the call.
Frame(c) == c

NotReturned == [sd |-> None, tag |-> ""]

InitPair ==
    /\ UploadIdle
    /\ ScanIdle
    /\ TotalsIdle
    /\ call_pc = [c \in Calls |-> "is_available"]
    /\ \E t1 \in PairTexts, t2 \in PairTexts, ready \in BOOLEAN, fallback \in BOOLEAN :
          /\ t1 # t2
          /\ call_args = [text |-> <<t1, t2>>, self |-> Instance(ready, fallback)]
    /\ call_ret = [self |-> call_args.self,
                   frame |-> [c \in Calls |-> NotCalled],
                   resp |-> [c \in Calls |-> NoAnswer],
                   out |-> [c \in Calls |-> NotReturned]]

\* if self.gemini_extractor.is_available()
pair_is_available(c) ==
    /\ call_pc[c] = "is_available"
    /\ call_pc' = [call_pc EXCEPT ![c] = IF call_ret.self.gemini_extractor
                                         THEN "extract" ELSE "fallback"]
    /\ UNCHANGED call_ret
    /\ AdapterRest

\* structured_data, method = self.gemini_extractor.extract(text)
pair_extract(c) ==
    /\ call_pc[c] = "extract"
    /\ \E resp \in PairAnswers :
          call_ret' = [call_ret EXCEPT !.frame[Frame(c)] = extract(resp),
                                       !.resp[c] = resp]
    /\ call_pc' = [call_pc EXCEPT ![c] = "gate"]
    /\ AdapterRest

\* The test of line 480, and the return of an accepted model.
pair_gate(c) ==
    /\ call_pc[c] = "gate"
    /\ IF Accepted(call_ret.frame[Frame(c)])
       THEN /\ call_ret' = [call_ret EXCEPT !.out[c] =
                               [sd |-> call_ret.frame[Frame(c)].sd,
                                tag |-> call_ret.frame[Frame(c)].tag]]
            /\ call_pc' = [call_pc EXCEPT ![c] = "returned"]
       ELSE /\ call_pc' = [call_pc EXCEPT ![c] = "fallback"]
            /\ UNCHANGED call_ret
    /\ AdapterRest

\* Lines 491-495: the pattern-based model, or (None, "extraction_failed").
pair_fallback(c) ==
    /\ call_pc[c] = "fallback"
    /\ call_ret' = [call_ret EXCEPT !.out[c] =
                       IF call_ret.self.fallback_enabled
                       THEN [sd |-> Some(_convert_regex_to_structured(call_args.text[c])),
                             tag |-> "regex_fallback"]
                       ELSE [sd |-> None, tag |-> "extraction_failed"]]
    /\ call_pc' = [call_pc EXCEPT ![c] = "returned"]
    /\ AdapterRest

NextPair ==
    \E c \in Calls :
        \/ pair_is_available(c)
        \/ pair_extract(c)
        \/ pair_gate(c)
        \/ pair_fallback(c)

SpecPair == InitPair /\ [][NextPair]_vars

\* What call c returns when it runs alone, the service answering the same.
Alone(c) ==
    Only({ [sd |-> r.sd, tag |-> r.tag] :
             r \in {_extract_with_ai_fallback(call_args.text[c],
                                              call_args.self.gemini_extractor,
                                              call_args.self.fallback_enabled,
                                              call_ret.resp[c])} })

\* C21: however two calls of _extract_with_ai_fallback on one instance with
\* different texts interleave, each returns the model and the tag it returns
\* alone, and the pattern tables, the adapter handle and the configuration
\* stay as they were.
C21_CallsIndependent ==
    /\ call_ret.self = call_args.self
    /\ \A c \in Calls : call_pc[c] = "returned" => call_ret.out[c] = Alone(c)

\* Both calls have returned; the first was given a model it accepted after
\* the second had been given one it did not accept and before that one went
\* on to the patterns.
C21_Witness ==
    /\ \A c \in Calls : call_pc[c] = "returned"
    /\ call_ret.out[1].tag = "gemini_ai"
    /\ call_ret.out[2].tag = "regex_fallback"
    /\ call_ret.resp[2].kind = "json"
    /\ call_ret.out[1] # call_ret.out[2]

(***************************************************************************)
(* C30: two calls of extract_text_from_pdf on scanned documents            *)
(***************************************************************************)
\* The most pages a scanned document has.
MaxPages == 2

\* The image of page i of the document of call c, and what OCR reads on it.
PageImage(c, i) == <<c, i>>

\* f"temp_page_{i}.png": a name in the working directory, made of the page
\* index alone.
temp_path(c, i) == i

\* The text of call c when nothing else touches the working directory.
RECURSIVE OwnPages(_, _, _)
OwnPages(c, i, n) == IF i >= n THEN <<>> ELSE <<PageImage(c, i)>> \o OwnPages(c, i + 1, n)

\* extract_text_from_image(temp_path) on the working directory files: the OCR
\* of the image found there, "" where there is none (cv2.imread gives None,
\* cv2.cvtColor raises, the except clause returns "").
extract_text_from_image(files, path) ==
    IF files[path] = None THEN <<>> ELSE <<files[path][1]>>

\* Whether call c meets a file of the other call at path.
Foreign(files, path, c) == files[path] # None /\ files[path][1][1] # c

InitOcr ==
    /\ UploadIdle
    /\ ScanIdle
    /\ TotalsIdle
    /\ call_pc = [c \in Calls |-> "convert_from_path"]
    /\ call_args \in [Calls -> 1..MaxPages]
    /\ call_ret = [files |-> [path \in 0..(MaxPages - 1) |-> None],
                   i |-> [c \in Calls |-> 0],
                   text |-> [c \in Calls |-> <<>>],
                   result |-> [c \in Calls |-> None],
                   foreign |-> [c \in Calls |-> FALSE]]

\* Lines 141-149: no text in the PDF, so its pages are rendered and the loop
\* over them begins.
ocr_convert(c) ==
    /\ call_pc[c] = "convert_from_path"
    /\ call_pc' = [call_pc EXCEPT ![c] = "save"]
    /\ UNCHANGED call_ret
    /\ AdapterRest

\* image.save(temp_path)
ocr_save(c) ==
    /\ call_pc[c] = "save"
    /\ \E path \in {temp_path(c, call_ret.i[c])} :
          call_ret' = [call_ret EXCEPT
                         !.files[path] = Some(PageImage(c, call_ret.i[c])),
                         !.foreign[c] = @ \/ Foreign(call_ret.files, path, c)]
    /\ call_pc' = [call_pc EXCEPT ![c] = "extract_text_from_image"]
    /\ AdapterRest

\* text += self.extract_text_from_image(temp_path)
ocr_read(c) ==
    /\ call_pc[c] = "extract_text_from_image"
    /\ \E path \in {temp_path(c, call_ret.i[c])} :
          call_ret' = [call_ret EXCEPT
                         !.text[c] = @ \o extract_text_from_image(call_ret.files, path),
                         !.foreign[c] = @ \/ Foreign(call_ret.files, path, c)]
    /\ call_pc' = [call_pc EXCEPT ![c] = "remove"]
    /\ AdapterRest

\* os.remove(temp_path), then the next page or "return text"; without the
\* file os.remove raises FileNotFoundError and the except clause of line 158
\* returns "".
ocr_remove(c) ==
    /\ call_pc[c] = "remove"
    /\ \E path \in {temp_path(c, call_ret.i[c])} :
          IF call_ret.files[path] = None
          THEN /\ call_ret' = [call_ret EXCEPT !.result[c] = Some(<<>>)]
               /\ call_pc' = [call_pc EXCEPT ![c] = "returned"]
          ELSE IF call_ret.i[c] + 1 < call_args[c]
          THEN /\ call_ret' = [call_ret EXCEPT
                                 !.files[path] = None,
                                 !.foreign[c] = @ \/ Foreign(call_ret.files, path, c),
                                 !.i[c] = @ + 1]
               /\ call_pc' = [call_pc EXCEPT ![c] = "save"]
          ELSE /\ call_ret' = [call_ret EXCEPT
                                 !.files[path] = None,
                                 !.foreign[c] = @ \/ Foreign(call_ret.files, path, c),
                                 !.i[c] = @ + 1,
                                 !.result[c] = Some(call_ret.text[c])]
               /\ call_pc' = [call_pc EXCEPT ![c] = "returned"]
    /\ AdapterRest

NextOcr ==
    \E c \in Calls :
        \/ ocr_convert(c)
        \/ ocr_save(c)
        \/ ocr_read(c)
        \/ ocr_remove(c)

SpecOcr == InitOcr /\ [][NextOcr]_vars

\* C30: of two concurrent calls on scanned PDFs, each recovers the text of its
\* own pages and of no others, neither loses its text or fails because of the
\* other, and neither reads, overwrites or removes a temporary image file of
\* the other.
C30_OcrIsolated ==
    \A c \in Calls :
        /\ ~call_ret.foreign[c]
        /\ call_pc[c] = "returned" =>
               call_ret.result[c] = Some(OwnPages(c, 0, call_args[c]))

\* Two one-page documents: the first call recovered the page of the second,
\* and the second, finding its file gone, returned no text.
C30_TextOfTheOther ==
    /\ call_args = <<1, 1>>
    /\ \A c \in Calls : call_pc[c] = "returned"
    /\ call_ret.result[1] = Some(<<PageImage(2, 0)>>)
    /\ call_ret.result[2] = Some(<<>>)

====
